---- MODULE Spec2Model ----
(***************************************************************************)
(* Crisis detection supervisor (src/examples/crisis_detection.py):         *)
(* pattern matcher, adaptive classifier, result cache, per-user circuit    *)
(* breaker, decision fuser, resource resolver, audit metrics and the       *)
(* supervisor's detect() orchestration.                                    *)
(*                                                                         *)
(* Conventions.  A severity is its numeric level 0..4 (CrisisSeverity      *)
(* compares by level).  A confidence is a percentage (0.95 is 95).  A      *)
(* text is a sequence of tokens; a token is a word or phrase that the      *)
(* regular expressions of the catalogue match as a whole.  An Optional     *)
(* timestamp is <<>> (None) or <<t>>.  Time is in seconds.                 *)
(***************************************************************************)
EXTENDS Integers, Sequences, FiniteSets, TLC

(***************************************************************************)
(* Bounds of the model                                                     *)
(***************************************************************************)
MaxTicks == 3          \* clock advances at most this many times
MaxDetections == 3     \* logged detections explored per behaviour
MaxCrisisCount == 4    \* crises recorded per user through the breaker's API
MaxResults == 3        \* results in a list given to the fuser directly
MaxContext == 4        \* entries in a context given to create_key directly

(***************************************************************************)
(* Enums                                                                   *)
(***************************************************************************)
NONE == 0
LOW == 1
MODERATE == 2
HIGH == 3
CRITICAL == 4
Severities == {NONE, LOW, MODERATE, HIGH, CRITICAL}

SeverityLabel(s) ==
  CASE s = NONE -> "none"
    [] s = LOW -> "low"
    [] s = MODERATE -> "moderate"
    [] s = HIGH -> "high"
    [] s = CRITICAL -> "critical"

PROCEED == "proceed"
MONITOR == "monitor"
INTERRUPT == "interrupt"

CLOSED == "closed"
OPEN == "open"
HALF_OPEN == "half_open"

None == "None"

Max(S) == CHOOSE x \in S : \A y \in S : y <= x
Min2(a, b) == IF a < b THEN a ELSE b

(***************************************************************************)
(* CrisisDetectionResult with the dataclass defaults                       *)
(***************************************************************************)
DefaultResult ==
  [ severity |-> NONE, confidence |-> 0, indicators |-> <<>>,
    categories |-> {}, requires_resources |-> FALSE,
    recommended_action |-> PROCEED, detection_method |-> "unknown",
    language |-> "en", reasoning |-> None, cache_hit |-> FALSE ]

(***************************************************************************)
(* Inputs: tokens, texts, contexts                                         *)
(***************************************************************************)
\* The script of a token's characters; "wo xiang si" stands for the three
\* CJK ideographs of the zh catalogue's first phrase.
Script(tok) == IF tok = "wo xiang si" THEN "cjk" ELSE "latin"

\* The literals of the false-positive expressions that occur in a token.
Stems(tok) ==
  CASE tok = "deadline" -> {"deadline"}
    [] tok = "killing me" -> {"kill"}
    [] tok = "kill myself" -> {"kill"}
    [] OTHER -> {}

TBenign == <<"feeling stressed about work">>
TCritical == <<"i want to", "kill myself">>
TModerate == <<"breaking point">>
TFalsePositive == <<"deadline", "killing me">>
TFalsePositiveCritical == <<"deadline", "kill myself">>
TFrench == <<"je veux mourir">>
TChinese == <<"wo xiang si">>
\* a text with a lone surrogate, which str.encode() rejects
TUnencodable == <<"feeling fine", "U+D83D">>

Texts == { TBenign, TCritical, TModerate, TFalsePositive,
           TFalsePositiveCritical, TFrench, TChinese, TUnencodable }

Contexts == { <<>>, << <<"earlier">>, <<"message">> >> }

(***************************************************************************)
(* PatternDatabase (a sample of each catalogue)                            *)
(***************************************************************************)
CrisisPattern(ph, sev, cat, lang, w) ==
  [ phrases |-> ph, severity |-> sev, category |-> cat, language |-> lang,
    confidence_weight |-> w ]

get_patterns ==
  [ en |-> << CrisisPattern({"kill myself", "end my life"}, CRITICAL,
                            "suicidal_ideation", "en", 100),
              CrisisPattern({"can't go on"}, HIGH, "hopelessness", "en", 100),
              CrisisPattern({"can't cope", "breaking point"}, MODERATE,
                            "hopelessness", "en", 80) >>,
    fr |-> << CrisisPattern({"je veux mourir", "me tuer"}, CRITICAL,
                            "suicidal_ideation", "fr", 100) >>,
    zh |-> << CrisisPattern({"wo xiang si"}, CRITICAL,
                            "suicidal_ideation", "zh", 100) >> ]

\* a.*b for each pair <<a, b>>
get_false_positive_patterns ==
  << <<"deadline", "kill">>, <<"kill", "time">> >>

\* The critical-severity phrases of all catalogues.
CriticalPhrases ==
  UNION { UNION { get_patterns[l][i].phrases :
                    i \in { j \in DOMAIN get_patterns[l] :
                              get_patterns[l][j].severity = CRITICAL } } :
          l \in DOMAIN get_patterns }

(***************************************************************************)
(* RegexDetector                                                           *)
(***************************************************************************)
\* regex.search of an a.*b expression
SearchFalsePositive(p, text) ==
  \E i \in DOMAIN text : \E j \in DOMAIN text :
     i < j /\ p[1] \in Stems(text[i]) /\ p[2] \in Stems(text[j])

_is_false_positive(text) ==
  \E k \in DOMAIN get_false_positive_patterns :
     SearchFalsePositive(get_false_positive_patterns[k], text)

_detect_language(text) ==
  IF \E i \in DOMAIN text : Script(text[i]) = "cjk" THEN "zh" ELSE "en"

\* regex.search of a catalogue pattern: the positions of the text it matches
MatchPositions(pattern, text) ==
  { i \in DOMAIN text : text[i] \in pattern.phrases }

\* Mutant: the action rule without its monitor level.
ActionFor_no_monitor(sev) == IF sev >= HIGH THEN INTERRUPT ELSE PROCEED

\* Severity to action and resource requirement (lines 513-522, 1501-1510)
ActionFor(sev) ==
  IF sev >= HIGH THEN INTERRUPT
  ELSE IF sev = MODERATE THEN MONITOR ELSE PROCEED

\* Mutant: resources required whatever the severity.
RequiresResourcesFor_always(sev) == TRUE

RequiresResourcesFor(sev) == sev >= HIGH

FirstN(s, n) == SubSeq(s, 1, Min2(n, Len(s)))

RegexDetect(text) ==
  IF _is_false_positive(text)
  THEN [ DefaultResult EXCEPT !.severity = NONE, !.confidence = 95,
           !.indicators = <<"false_positive">>,
           !.detection_method = "regex_false_positive" ]
  ELSE
    LET language == _detect_language(text)
        patterns == IF language \in DOMAIN get_patterns
                    THEN get_patterns[language] ELSE get_patterns["en"]
        Hit(p) == MatchPositions(p, text) # {}
        matched_patterns == SelectSeq(patterns, Hit)
    IN IF matched_patterns = <<>>
       THEN [ DefaultResult EXCEPT !.severity = NONE, !.confidence = 90,
                !.detection_method = "regex_no_match",
                !.language = language ]
       ELSE
         LET n == Len(matched_patterns)
             max_severity ==
               Max({ matched_patterns[i].severity : i \in 1..n })
             categories == { matched_patterns[i].category : i \in 1..n }
             indicators ==
               [ i \in 1..Min2(5, n) |->
                   text[CHOOSE k \in MatchPositions(matched_patterns[i], text) :
                          \A m \in MatchPositions(matched_patterns[i], text) :
                             k <= m] ]
             base_confidence == Min2(95, 60 + n * 15)
             weighted_confidence ==
               (base_confidence *
                  Max({ matched_patterns[i].confidence_weight : i \in 1..n }))
               \div 100
         IN [ DefaultResult EXCEPT !.severity = max_severity,
                !.confidence = weighted_confidence,
                !.indicators = indicators, !.categories = categories,
                !.requires_resources = RequiresResourcesFor(max_severity),
                !.recommended_action = ActionFor(max_severity),
                !.detection_method = "regex_" \o language,
                !.language = language ]

(***************************************************************************)
(* MLDetector.  A reply is what the two stages of the external service do  *)
(* for one request: tier1 is "SAFE", "CONCERN", "timeout" (the stage       *)
(* raises asyncio.TimeoutError) or "error" (it raises another exception);  *)
(* tier2 is "ok", "timeout" or "error".                                    *)
(***************************************************************************)
MLReply(t1, c1, t2, label, c2) ==
  [ tier1 |-> t1, tier1_confidence |-> c1, tier2 |-> t2,
    severity |-> label, confidence |-> c2 ]

\* what _tier1_screening and _tier2_analysis return as written
StubReply == MLReply("CONCERN", 75, "ok", "moderate", 82)

MLReplies ==
  { MLReply("SAFE", 90, "ok", "none", 0),
    StubReply,
    MLReply("CONCERN", 75, "ok", "critical", 90),
    MLReply("CONCERN", 75, "timeout", "none", 0),
    MLReply("CONCERN", 75, "error", "none", 0) }

severity_map(label) ==
  CASE label = "none" -> NONE
    [] label = "low" -> LOW
    [] label = "moderate" -> MODERATE
    [] label = "high" -> HIGH
    [] label = "critical" -> CRITICAL
    [] OTHER -> NONE

action_map(label) ==
  CASE label = "moderate" -> MONITOR
    [] label \in {"high", "critical"} -> INTERRUPT
    [] OTHER -> PROCEED

_convert_ml_result(reply) ==
  [ DefaultResult EXCEPT !.severity = severity_map(reply.severity),
      !.confidence = reply.confidence,
      !.requires_resources = severity_map(reply.severity) >= HIGH,
      !.recommended_action = action_map(reply.severity),
      !.detection_method = "ml_tier2",
      !.reasoning = "reasoning" ]

\* Mutant: the timeout fallback built with the dataclass defaults.
MLTimeoutFallback_defaults ==
  [ DefaultResult EXCEPT !.detection_method = "ml_timeout_fallback" ]

MLTimeoutFallback ==
  [ DefaultResult EXCEPT !.severity = MODERATE, !.confidence = 50,
      !.detection_method = "ml_timeout_fallback",
      !.recommended_action = MONITOR ]

\* TRUE when MLDetector.detect lets an exception out
MLRaises(reply) ==
  \/ reply.tier1 = "error"
  \/ reply.tier1 = "CONCERN" /\ reply.tier2 = "error"

\* The result MLDetector.detect returns when it does not raise
MLDetect(reply) ==
  IF reply.tier1 = "timeout" THEN MLTimeoutFallback
  ELSE IF reply.tier1 = "SAFE"
  THEN [ DefaultResult EXCEPT !.severity = NONE,
           !.confidence = reply.tier1_confidence,
           !.detection_method = "ml_tier1_safe" ]
  ELSE IF reply.tier2 = "timeout" THEN MLTimeoutFallback
  ELSE _convert_ml_result(reply)

\* Mutant: both stages invoked whatever the triage stage returned.
MLStages_both(reply) == <<"tier1", "tier2">>

\* The stages MLDetector.detect invokes: the second only after the first
\* returned a classification other than SAFE.
MLStages(reply) ==
  IF reply.tier1 \in {"SAFE", "timeout", "error"} THEN <<"tier1">>
  ELSE <<"tier1", "tier2">>

(***************************************************************************)
(* CacheManager.  The cache is a function from keys to entries; a key is   *)
(* the content that is hashed (sha256 taken as injective).                 *)
(***************************************************************************)
ttl_seconds == 300

RECURSIVE JoinContext(_)
JoinContext(ctx) ==
  IF ctx = <<>> THEN <<>>
  ELSE <<"|||">> \o Head(ctx) \o JoinContext(Tail(ctx))

LastN(s, n) == IF Len(s) <= n THEN s ELSE SubSeq(s, Len(s) - n + 1, Len(s))

create_key(text, context) ==
  IF context # <<>> THEN text \o JoinContext(LastN(context, 3)) ELSE text

\* content.encode() raises UnicodeEncodeError on a lone surrogate
Encodable(tok) == tok # "U+D83D"

create_key_raises(text, context) ==
  \E i \in DOMAIN create_key(text, context) :
     ~Encodable(create_key(text, context)[i])

\* Mutant: an entry still served at the age of the time to live.
CacheFresh_inclusive(c, key, t) ==
  key \in DOMAIN c /\ t - c[key].timestamp <= ttl_seconds

CacheFresh(c, key, t) ==
  key \in DOMAIN c /\ t - c[key].timestamp < ttl_seconds

\* the cache after get(key): a fresh entry's result is flagged, a stale
\* entry is deleted
CacheAfterGet(c, key, t) ==
  IF key \notin DOMAIN c THEN c
  ELSE IF t - c[key].timestamp < ttl_seconds
  THEN [ c EXCEPT ![key].result.cache_hit = TRUE ]
  ELSE [ k \in DOMAIN c \ {key} |-> c[k] ]

\* Mutant: get(key) returning the stored result without flagging it.
CacheGet_unflagged(c, key, t) == c[key].result

\* what get(key) returns when the entry is fresh
CacheGet(c, key, t) == [ c[key].result EXCEPT !.cache_hit = TRUE ]

\* Mutant: set(key, result) leaving a fallback result out of the cache.
CacheSet_skips_fallback(c, key, result, t) ==
  IF result.detection_method = "fallback" THEN c
  ELSE [ k \in DOMAIN c \cup {key} |->
           IF k = key THEN [ result |-> result, timestamp |-> t ] ELSE c[k] ]

CacheSet(c, key, result, t) ==
  [ k \in DOMAIN c \cup {key} |->
      IF k = key THEN [ result |-> result, timestamp |-> t ] ELSE c[k] ]

(***************************************************************************)
(* State                                                                   *)
(***************************************************************************)
VARIABLES
  now,        \* datetime.now(), in seconds
  enable_ml,  \* the supervisor's configuration
  states,     \* CircuitBreaker.states: user id -> UserCrisisState
  cache,      \* CacheManager.cache: key -> (result, timestamp)
  metrics,    \* AnalyticsLogger.metrics
  events,     \* number of events retained by AnalyticsLogger.events
  reqs,       \* the detect() calls suspended in asyncio.wait
  resp,       \* what the call that returned last returned, and how
  recent,     \* summaries of the last detect() calls that returned
  scope       \* the environment of this behaviour

vars ==
  <<now, enable_ml, states, cache, metrics, events, reqs, resp, recent, scope>>

(***************************************************************************)
(* UserCrisisState and CircuitBreaker                                      *)
(***************************************************************************)
\* the defaults of CircuitBreaker.__init__ and of should_bypass_analysis
threshold == 3
window_seconds == 1800
recovery_seconds == 900
window_minutes == 30

\* dict.get(key, default) on the supervisor's config, a set of (key, value)
ConfigGet(config, key, default) ==
  IF \E p \in config : p[1] = key
  THEN (CHOOSE p \in config : p[1] = key)[2]
  ELSE default

CircuitBreaker(th, w, r) ==
  [ threshold |-> th, window |-> w, recovery |-> r ]

\* self.circuit_breaker as CrisisDetectionSupervisor.__init__ builds it: the
\* threshold and the window come from the config, the recovery period is
\* left to its default
circuit_breaker ==
  CircuitBreaker(ConfigGet(scope.config, "circuit_threshold", threshold),
                 ConfigGet(scope.config, "circuit_window", window_seconds),
                 recovery_seconds)

UserCrisisState ==
  [ state |-> CLOSED, crisis_count |-> 0, last_crisis_time |-> <<>>,
    severity_history |-> <<>> ]

\* Mutant: bypass decided by the circuit state alone.
should_bypass_analysis_open_only(us, t) == us.state = OPEN

\* Mutant: the bypass kept for as long as the count stands.
should_bypass_analysis_forever(us, t) ==
  us.state = OPEN \/ us.crisis_count >= 3

should_bypass_analysis(us, t) ==
  IF us.state = OPEN THEN TRUE
  ELSE IF us.last_crisis_time # <<>>
          /\ t - us.last_crisis_time[1] < window_minutes * 60
  THEN us.crisis_count >= 3
  ELSE FALSE

\* self.states with user_id present
WithUser(st, u) ==
  IF u \in DOMAIN st THEN st
  ELSE [ x \in DOMAIN st \cup {u} |-> IF x = u THEN UserCrisisState ELSE st[x] ]

\* Mutant: get_state() testing the rolling window instead of the recovery
\* period.
get_state_window(st, u, t) ==
  LET st1 == WithUser(st, u)
      us == st1[u]
  IN IF us.state = OPEN /\ us.last_crisis_time # <<>>
        /\ t - us.last_crisis_time[1] > circuit_breaker.window
     THEN [ st1 EXCEPT ![u].state = HALF_OPEN ]
     ELSE st1

\* Mutant: get_state() closing the circuit once the recovery period has
\* passed.
get_state_closes(st, u, t) ==
  LET st1 == WithUser(st, u)
      us == st1[u]
  IN IF us.state = OPEN /\ us.last_crisis_time # <<>>
        /\ t - us.last_crisis_time[1] > circuit_breaker.recovery
     THEN [ st1 EXCEPT ![u].state = CLOSED ]
     ELSE st1

\* self.states after get_state(user_id)
get_state(st, u, t) ==
  LET st1 == WithUser(st, u)
      us == st1[u]
  IN IF us.state = OPEN /\ us.last_crisis_time # <<>>
        /\ t - us.last_crisis_time[1] > circuit_breaker.recovery
     THEN [ st1 EXCEPT ![u].state = HALF_OPEN ]
     ELSE st1

\* Mutant: record_crisis() counting at most one crisis per instant.
record_crisis_once_per_instant(st, u, sev, t) ==
  LET st1 == WithUser(st, u)
      us == st1[u]
  IN IF us.last_crisis_time = <<t>> THEN st1
     ELSE [ st1 EXCEPT ![u] = [ state |-> us.state,
                                crisis_count |-> us.crisis_count + 1,
                                last_crisis_time |-> <<t>>,
                                severity_history |->
                                  Append(us.severity_history, sev) ] ]

\* Mutant: record_crisis() without the reset outside the window.
record_crisis_no_reset(st, u, sev, t) ==
  LET st1 == WithUser(st, u)
      us == st1[u]
      count == us.crisis_count + 1
  IN [ st1 EXCEPT ![u] = [ state |-> IF count >= circuit_breaker.threshold
                                     THEN OPEN ELSE us.state,
                           crisis_count |-> count,
                           last_crisis_time |-> <<t>>,
                           severity_history |->
                             Append(us.severity_history, sev) ] ]

\* self.states after record_crisis(user_id, severity)
record_crisis(st, u, sev, t) ==
  LET st1 == WithUser(st, u)
      us == st1[u]
      outside == us.last_crisis_time # <<>>
                 /\ t - us.last_crisis_time[1] > circuit_breaker.window
      count == (IF outside THEN 0 ELSE us.crisis_count) + 1
      history == Append(IF outside THEN <<>> ELSE us.severity_history, sev)
      \* last_crisis_time is already now when the recovery test is made
      newstate == IF count >= circuit_breaker.threshold THEN OPEN
                  ELSE IF us.state = OPEN
                          /\ t - t > circuit_breaker.recovery
                  THEN HALF_OPEN ELSE us.state
  IN [ st1 EXCEPT ![u] = [ state |-> newstate, crisis_count |-> count,
                           last_crisis_time |-> <<t>>,
                           severity_history |-> history ] ]

\* Mutant: reset() clearing every user's record.
reset_all(st, u) == [ x \in DOMAIN st |-> UserCrisisState ]

reset(st, u) ==
  IF u \in DOMAIN st THEN [ st EXCEPT ![u] = UserCrisisState ] ELSE st

(***************************************************************************)
(* ResourceManager (a sample of the directory)                             *)
(***************************************************************************)
CrisisResource(n, langs, prio) ==
  [ name |-> n, languages |-> langs, priority |-> prio ]

_load_resources ==
  [ US |-> << CrisisResource("988 Suicide & Crisis Lifeline", {"en", "es"}, 1),
              CrisisResource("Crisis Text Line", {"en"}, 2),
              CrisisResource("SAMHSA National Helpline", {"en", "es"}, 3),
              CrisisResource("National Domestic Violence Hotline",
                             {"en", "es"}, 4),
              CrisisResource("Linea de Crisis Hispana", {"es"}, 5) >>,
    FR |-> << CrisisResource("3114", {"fr"}, 1),
              CrisisResource("SOS Amitie", {"fr"}, 2) >>,
    BR |-> << CrisisResource("Centro de Valorizacao da Vida", {"pt"}, 1) >> ]

\* list.sort(key=priority): a stable insertion sort
RECURSIVE InsertByPriority(_, _)
InsertByPriority(sorted, r) ==
  IF sorted = <<>> THEN <<r>>
  ELSE IF r.priority < Head(sorted).priority THEN <<r>> \o sorted
  ELSE <<Head(sorted)>> \o InsertByPriority(Tail(sorted), r)

RECURSIVE SortByPriority(_)
SortByPriority(rs) ==
  IF rs = <<>> THEN <<>>
  ELSE InsertByPriority(SortByPriority(SubSeq(rs, 1, Len(rs) - 1)),
                        rs[Len(rs)])

\* Mutant: three resources whatever the severity.
get_resources_three(country_code, language, severity) ==
  LET resources == IF country_code \in DOMAIN _load_resources
                   THEN _load_resources[country_code]
                   ELSE _load_resources["US"]
      Supported(r) == language \in r.languages \/ "en" \in r.languages
  IN FirstN(SortByPriority(SelectSeq(resources, Supported)), 3)

\* Mutant: no default country.
get_resources_no_default(country_code, language, severity) ==
  LET resources == IF country_code \in DOMAIN _load_resources
                   THEN _load_resources[country_code]
                   ELSE <<>>
      Supported(r) == language \in r.languages \/ "en" \in r.languages
      limit == IF severity >= HIGH THEN 3 ELSE 2
  IN FirstN(SortByPriority(SelectSeq(resources, Supported)), limit)

get_resources(country_code, language, severity) ==
  LET resources == IF country_code \in DOMAIN _load_resources
                   THEN _load_resources[country_code]
                   ELSE _load_resources["US"]
      Supported(r) == language \in r.languages \/ "en" \in r.languages
      filtered == SortByPriority(SelectSeq(resources, Supported))
      limit == IF severity >= HIGH THEN 3 ELSE 2
  IN FirstN(filtered, limit)

ResourceNames(rs) == [ i \in DOMAIN rs |-> rs[i].name ]

(***************************************************************************)
(* AnalyticsLogger.  Latencies are not modelled; the event buffer is the   *)
(* number of events it retains.                                            *)
(***************************************************************************)
buffer_size == 100

InitialMetrics ==
  [ total_detections |-> 0, crisis_detections |-> 0, false_positives |-> 0,
    cache_hits |-> 0,
    detections_by_severity |->
      [ l \in { SeverityLabel(s) : s \in Severities } |-> 0 ] ]

\* Mutant: crisis_detections counted from severity high.
_update_metrics_from_high(m, result) ==
  [ m EXCEPT
      !.total_detections = @ + 1,
      !.crisis_detections = IF result.severity >= HIGH THEN @ + 1 ELSE @,
      !.cache_hits = IF result.cache_hit THEN @ + 1 ELSE @,
      !.detections_by_severity[SeverityLabel(result.severity)] = @ + 1 ]

_update_metrics(m, result) ==
  [ m EXCEPT
      !.total_detections = @ + 1,
      !.crisis_detections = IF result.severity >= MODERATE THEN @ + 1 ELSE @,
      !.cache_hits = IF result.cache_hit THEN @ + 1 ELSE @,
      !.detections_by_severity[SeverityLabel(result.severity)] = @ + 1 ]

\* deque(maxlen=buffer_size).append
AppendEvent(n) == Min2(n + 1, buffer_size)

(***************************************************************************)
(* Decision fuser and fallback                                             *)
(***************************************************************************)
\* Mutant: the fallback built with the dataclass defaults.
_create_fallback_result_defaults ==
  [ DefaultResult EXCEPT !.detection_method = "fallback" ]

_create_fallback_result ==
  [ DefaultResult EXCEPT !.severity = MODERATE, !.confidence = 50,
      !.recommended_action = MONITOR, !.detection_method = "fallback" ]

\* "ml" in r.detection_method, over the method labels the detectors produce
IsMLMethod(m) == m \in {"ml_tier1_safe", "ml_tier2", "ml_timeout_fallback"}

RECURSIVE ConcatIndicators(_)
ConcatIndicators(results) ==
  IF results = <<>> THEN <<>>
  ELSE Head(results).indicators \o ConcatIndicators(Tail(results))

\* Mutant: fusion without the classifier's override.
_fuse_results_no_override(results) ==
  IF results = <<>> THEN _create_fallback_result
  ELSE
    LET idx == DOMAIN results
        max_severity == Max({ results[i].severity : i \in idx })
    IN [ DefaultResult EXCEPT !.severity = max_severity,
           !.confidence = Max({ results[i].confidence : i \in idx }),
           !.indicators = FirstN(ConcatIndicators(results), 5),
           !.categories = UNION { results[i].categories : i \in idx },
           !.requires_resources = RequiresResourcesFor(max_severity),
           !.recommended_action = ActionFor(max_severity),
           !.detection_method = "fusion" ]

_fuse_results(results) ==
  IF results = <<>> THEN _create_fallback_result
  ELSE
    LET idx == DOMAIN results
        max_sev == Max({ results[i].severity : i \in idx })
        max_confidence == Max({ results[i].confidence : i \in idx })
        all_indicators == ConcatIndicators(results)
        all_categories == UNION { results[i].categories : i \in idx }
        FromML(r) == IsMLMethod(r.detection_method)
        ml_results == SelectSeq(results, FromML)
        override == ml_results # <<>> /\ ml_results[1].confidence > 85
        max_severity == IF override THEN ml_results[1].severity ELSE max_sev
        reasoning == IF override THEN ml_results[1].reasoning ELSE None
    IN [ DefaultResult EXCEPT !.severity = max_severity,
           !.confidence = max_confidence,
           !.indicators = FirstN(all_indicators, 5),
           !.categories = all_categories,
           !.requires_resources = RequiresResourcesFor(max_severity),
           !.recommended_action = ActionFor(max_severity),
           !.detection_method = "fusion", !.reasoning = reasoning ]

(***************************************************************************)
(* Inputs and scopes                                                       *)
(***************************************************************************)
Users == {"u1", "u2"}
\* (country_code, language) as passed to detect()
Locales == { <<"US", None>>, <<"BR", "es">> }
\* time between calls: the recovery period, and half the cache's time to live
Delays == {900}
CacheDelays == {150}
\* a delay that lands between the recovery period and the rolling window
RecoveryDelays == {600}
\* a supervisor configured with a threshold, a rolling window and a
\* recovery period of its own
BreakerConfig ==
  { <<"circuit_threshold", 2>>, <<"circuit_window", 1200>>,
    <<"circuit_recovery", 300>> }

\* what asyncio.wait finds for a tier's task at the deadline
TaskOutcomes == {"done", "raised", "pending"}

\* A scope is what the environment of one behaviour does: the arguments the
\* callers pass to detect(), how many calls they keep in flight, what the
\* pattern tier's task does (faults are injected in some scopes only), what
\* the classifier service replies, and the severities passed to
\* record_crisis() by direct callers of the breaker.
Scope(texts, users, contexts, locales, slots, regex, replies, sevs) ==
  [ texts |-> texts, users |-> users, contexts |-> contexts,
    locales |-> locales, slots |-> slots, regex_outcomes |-> regex,
    replies |-> replies, severities |-> sevs, delays |-> Delays,
    config |-> {}, calls |-> MaxDetections ]

\* One caller, one call at a time: every text alone with every classifier
\* reply; one text with faults injected in the pattern tier; two texts, two
\* contexts, two locales and two callers with the classifier as written; one
\* text repeated at intervals shorter than the cache's time to live, and one
\* at intervals between the recovery period and the rolling window.
SequentialScopes ==
  { Scope({t}, {"u1"}, {<<>>}, {<<"US", None>>}, {1}, {"done"}, MLReplies,
          {}) : t \in Texts }
  \cup { Scope({TCritical}, {"u1"}, {<<>>}, {<<"US", None>>}, {1},
               TaskOutcomes, MLReplies, {}),
         Scope({TCritical, TModerate}, {"u1"}, {<<>>}, {<<"US", None>>}, {1},
               {"done"}, {StubReply}, {}),
         Scope({TModerate}, {"u1"}, Contexts, {<<"US", None>>}, {1},
               {"done"}, {StubReply}, {}),
         Scope({TCritical}, {"u1"}, {<<>>}, Locales, {1}, {"done"},
               {StubReply}, {}),
         Scope({TModerate}, Users, {<<>>}, {<<"US", None>>}, {1}, {"done"},
               {StubReply}, {}),
         [ Scope({TModerate}, {"u1"}, {<<>>}, {<<"US", None>>}, {1}, {"done"},
                 MLReplies, {}) EXCEPT !.delays = CacheDelays ],
         [ Scope({TModerate}, {"u1"}, Contexts, {<<"US", None>>}, {1},
                 {"done"}, {StubReply}, {})
             EXCEPT !.delays = RecoveryDelays ] }

\* Two calls at a time for one user, the classifier as written.
ConcurrentScopes ==
  { Scope({TModerate, TCritical}, {"u1"}, {<<>>}, {<<"US", None>>}, {1, 2},
          {"done"}, {StubReply}, {}) }

\* Two calls at a time for one user on one text, far enough apart for the
\* cache entry to expire, with one more call than the threshold needs.
OverlapScopes ==
  { [ Scope({TModerate}, {"u1"}, {<<>>}, {<<"US", None>>}, {1, 2},
            {"done"}, {StubReply}, {})
        EXCEPT !.calls = MaxDetections + 1 ] }

\* delays just over the cache's time to live and just over the bypass window
LapseDelays == {400, 1900}

\* One caller, one call at a time, one crisis text and one more call than
\* the threshold needs, each after the cache entry of the last has expired.
RecoveryScopes ==
  { [ Scope({TModerate}, {"u1"}, {<<>>}, {<<"US", None>>}, {1}, {"done"},
            {StubReply}, {})
        EXCEPT !.calls = MaxDetections + 1, !.delays = LapseDelays ] }

\* Direct callers of the supervisor's circuit breaker: one user with two
\* severities, two users with one, one user at intervals between the
\* recovery period and the rolling window, and one user of a supervisor
\* with a configuration of its own.
BreakerScopes ==
  { Scope({}, {"u1"}, {}, {}, {}, {}, {}, {MODERATE, CRITICAL}),
    Scope({}, Users, {}, {}, {}, {}, {}, {HIGH}),
    [ Scope({}, {"u1"}, {}, {}, {}, {}, {}, {HIGH})
        EXCEPT !.delays = RecoveryDelays ],
    [ Scope({}, {"u1"}, {}, {}, {}, {}, {}, {HIGH})
        EXCEPT !.delays = RecoveryDelays, !.config = BreakerConfig ] }

Reqs == scope.slots

Idle == [ pc |-> "idle" ]

Waiting(r) == reqs[r].pc = "waiting"

\* Lines 1432-1434: the slot of a call after asyncio.wait returned: the
\* tasks still pending have been cancelled and are left to the event loop.
AfterWait(ro, mo) ==
  LET pending == (IF ro = "pending" THEN {"regex"} ELSE {})
                 \cup (IF mo = "pending" THEN {"ml"} ELSE {})
  IN IF pending = {} THEN Idle ELSE [ pc |-> "cancelled", tasks |-> pending ]

InitState ==
  /\ now = 0
  /\ states = << >>
  /\ cache = << >>
  /\ metrics = InitialMetrics
  /\ events = 0
  /\ reqs = [ r \in scope.slots |-> Idle ]
  /\ resp = [ returned |-> "none" ]
  /\ recent = << >>

Init ==
  /\ scope \in SequentialScopes
  /\ enable_ml \in BOOLEAN
  /\ InitState

InitConcurrent ==
  /\ scope \in ConcurrentScopes
  /\ enable_ml = TRUE
  /\ InitState

InitOverlap ==
  /\ scope \in OverlapScopes
  /\ enable_ml = TRUE
  /\ InitState

InitRecovery ==
  /\ scope \in RecoveryScopes
  /\ enable_ml \in BOOLEAN
  /\ InitState

InitBreaker ==
  /\ scope \in BreakerScopes
  /\ enable_ml = TRUE
  /\ InitState

(***************************************************************************)
(* Responses                                                               *)
(***************************************************************************)
Request(text, u, ctx, cc, lang) ==
  [ text |-> text, user_id |-> u, context |-> ctx, country_code |-> cc,
    language |-> lang ]

\* the logger's own detections_by_severity dict, as a reference
SharedHistogram == "self.metrics.detections_by_severity"

\* self.metrics.copy(): a shallow copy.  The counters are copied; the
\* per-severity histogram is the logger's own dict, held by reference.
MetricsSnapshot(m) ==
  [ total_detections |-> m.total_detections,
    crisis_detections |-> m.crisis_detections,
    false_positives |-> m.false_positives,
    cache_hits |-> m.cache_hits,
    detections_by_severity |-> SharedHistogram ]

\* what a caller reads in a metrics object it holds when the logger's
\* metrics are m
ReadMetrics(held, m) ==
  [ held EXCEPT !.detections_by_severity =
      IF @ = SharedHistogram THEN m.detections_by_severity ELSE @ ]

\* Mutant: the bypass response without its bypassed_analysis mark.
_create_crisis_response_unmarked(st, u, severity, cc, language, bypassed) ==
  [ detection |-> [ severity |-> SeverityLabel(severity),
                    action |-> INTERRUPT, bypassed_analysis |-> FALSE ],
    resources |-> ResourceNames(get_resources(cc, language, severity)),
    message_language |-> language,
    user_state |-> [ circuit_state |-> st[u].state ] ]

\* the dict _create_crisis_response returns; st is self.states after its
\* get_state call
_create_crisis_response(st, u, severity, cc, language, bypassed) ==
  [ detection |-> [ severity |-> SeverityLabel(severity),
                    action |-> INTERRUPT, bypassed_analysis |-> bypassed ],
    resources |-> ResourceNames(get_resources(cc, language, severity)),
    message_language |-> language,
    user_state |-> [ circuit_state |-> st[u].state ] ]

\* Mutant: _format_response reporting the breaker label the user had when
\* the request came in.
_format_response_label_before(result, st, u, cc, language, m) ==
  LET lang == IF language # None THEN language ELSE result.language
  IN [ detection |-> [ severity |-> SeverityLabel(result.severity),
                       confidence |-> result.confidence,
                       action |-> result.recommended_action,
                       categories |-> result.categories,
                       cache_hit |-> result.cache_hit,
                       method |-> result.detection_method,
                       reasoning |-> result.reasoning ],
       has_resources |-> result.requires_resources,
       resources |-> IF result.requires_resources
                     THEN ResourceNames(
                            get_resources(cc, lang, result.severity))
                     ELSE <<>>,
       message_language |-> IF result.requires_resources THEN lang ELSE None,
       user_state |-> [ circuit_state |-> WithUser(states, u)[u].state ],
       metrics |-> MetricsSnapshot(m) ]

\* the dict _format_response returns; st is self.states after its get_state
\* call
_format_response(result, st, u, cc, language, m) ==
  LET lang == IF language # None THEN language ELSE result.language
  IN [ detection |-> [ severity |-> SeverityLabel(result.severity),
                       confidence |-> result.confidence,
                       action |-> result.recommended_action,
                       categories |-> result.categories,
                       cache_hit |-> result.cache_hit,
                       method |-> result.detection_method,
                       reasoning |-> result.reasoning ],
       has_resources |-> result.requires_resources,
       resources |-> IF result.requires_resources
                     THEN ResourceNames(
                            get_resources(cc, lang, result.severity))
                     ELSE <<>>,
       message_language |-> IF result.requires_resources THEN lang ELSE None,
       user_state |-> [ circuit_state |-> st[u].state ],
       metrics |-> MetricsSnapshot(m) ]

\* How a call went: the path it took through detect() and what the wait
\* found for each tier's task (with the tier's result when it had one).
Trace(path, ro, mo, rres, mres) ==
  [ path |-> path, regex_outcome |-> ro, ml_outcome |-> mo,
    regex_result |-> rres, ml_result |-> mres ]

Responded(req, trace, response) ==
  [ returned |-> "response", request |-> req, trace |-> trace, at |-> now,
    response |-> response ]

Raised(req, trace) ==
  [ returned |-> "exception", request |-> req, trace |-> trace, at |-> now ]

\* The summary of a returned call kept in recent.
Summary(r) ==
  [ user_id |-> r.request.user_id, text |-> r.request.text,
    context |-> r.request.context, at |-> r.at, path |-> r.trace.path,
    decided |-> r.returned = "response",
    severity |-> IF r.returned = "response"
                 THEN severity_map(r.response.detection.severity) ELSE NONE,
    confidence |-> IF r.returned = "response" /\ r.trace.path # "bypass"
                   THEN r.response.detection.confidence ELSE 0,
    cache_hit |-> IF r.returned = "response" /\ r.trace.path # "bypass"
                  THEN r.response.detection.cache_hit ELSE FALSE ]

\* recent keeps the last three calls
Returns(r) ==
  /\ resp' = r
  /\ recent' = LastN(Append(recent, Summary(r)), 3)

(***************************************************************************)
(* CrisisDetectionSupervisor.detect                                        *)
(***************************************************************************)
\* Mutant: the crisis recorded from severity high only.
StatesAfterDetection_high_only(st, u, final_result, t) ==
  get_state(IF final_result.severity >= HIGH
            THEN record_crisis(st, u, final_result.severity, t) ELSE st,
            u, t)

\* Lines 1466-1468 and 1602: the crisis is recorded when the severity is
\* moderate or above, then _format_response reads the state.
StatesAfterDetection(st, u, final_result, t) ==
  get_state(IF final_result.severity >= MODERATE
            THEN record_crisis(st, u, final_result.severity, t) ELSE st,
            u, t)

\* Mutant: a cache hit of severity moderate or above counted against the
\* user it is served to.
StatesAfterCacheHit_counting(st, u, cached_result, t) ==
  LET st1 == get_state(st, u, t)
  IN IF cached_result.severity >= MODERATE
     THEN [ st1 EXCEPT ![u].crisis_count = @ + 1 ]
     ELSE st1

\* Mutant: a cache hit recorded as a crisis like a fresh detection.
StatesAfterCacheHit_recording(st, u, cached_result, t) ==
  StatesAfterDetection(st, u, cached_result, t)

\* Lines 1416-1418: a cache hit is logged and formatted; the breaker is only
\* read (by _format_response).
StatesAfterCacheHit(st, u, cached_result, t) == get_state(st, u, t)

\* Mutant: the tasks still pending at the deadline awaited to completion.
FinalResult_awaits_pending(ro, mo, rr, mr) ==
  LET results == (IF ro \in {"done", "pending"} THEN <<rr>> ELSE <<>>)
                 \o (IF mo \in {"done", "pending"} THEN <<mr>> ELSE <<>>)
  IN IF ro = "raised" \/ mo = "raised" THEN _create_fallback_result
     ELSE IF results # <<>> THEN _fuse_results(results)
     ELSE _create_fallback_result

\* Lines 1436-1452: the results of the tasks that are done are awaited in
\* turn and fused; an exception from either await gives the fallback.
FinalResult(ro, mo, rr, mr) ==
  LET results == (IF ro = "done" THEN <<rr>> ELSE <<>>)
                 \o (IF mo = "done" THEN <<mr>> ELSE <<>>)
  IN IF ro = "raised" \/ mo = "raised" THEN _create_fallback_result
     ELSE IF results # <<>> THEN _fuse_results(results)
     ELSE _create_fallback_result

\* Lines 1457-1471: cache the result, log it, record the crisis, respond.
FinishDetection(st, c, final_result, req, key, trace) ==
  LET st2 == StatesAfterDetection(st, req.user_id, final_result, now)
      m1 == _update_metrics(metrics, final_result)
  IN /\ cache' = CacheSet(c, key, final_result, now)
     /\ metrics' = m1
     /\ events' = AppendEvent(events)
     /\ states' = st2
     /\ Returns(Responded(req, trace,
                  _format_response(final_result, st2, req.user_id,
                                   req.country_code, req.language, m1)))

\* Lines 1401-1431 and 1453-1455: the call up to its first suspension.
\* An error computing the cache key (line 1414) leaves detect() uncaught.
\* Bypass, cache hit and the pattern-matcher-only path run to the return
\* without suspending; with the classifier enabled the call suspends in
\* asyncio.wait.
Detect(r, text, u, ctx, cc, lang) ==
  /\ reqs[r].pc = "idle"
  /\ LET st1 == get_state(states, u, now)
         req == Request(text, u, ctx, cc, lang)
         key == create_key(text, ctx)
     IN IF should_bypass_analysis(st1[u], now)
        THEN /\ states' = get_state(st1, u, now)
             /\ Returns(Responded(req,
                  Trace("bypass", "not_run", "not_run", <<>>, <<>>),
                  _create_crisis_response(get_state(st1, u, now), u, HIGH, cc,
                     IF lang # None THEN lang ELSE "en", TRUE)))
             /\ UNCHANGED <<now, enable_ml, cache, metrics, events, reqs,
                            scope>>
        ELSE IF create_key_raises(text, ctx)
        THEN /\ states' = st1
             /\ Returns(Raised(req,
                  Trace("cache_key", "not_run", "not_run", <<>>, <<>>)))
             /\ UNCHANGED <<now, enable_ml, cache, metrics, events, reqs,
                            scope>>
        ELSE
          /\ metrics.total_detections
               + Cardinality({ q \in Reqs : Waiting(q) }) < scope.calls
          /\ IF CacheFresh(cache, key, now)
             THEN LET cached_result == CacheGet(cache, key, now)
                      m1 == _update_metrics(metrics, cached_result)
                      st2 == StatesAfterCacheHit(st1, u, cached_result, now)
                  IN /\ cache' = CacheAfterGet(cache, key, now)
                     /\ metrics' = m1
                     /\ events' = AppendEvent(events)
                     /\ states' = st2
                     /\ Returns(Responded(req,
                          Trace("cache_hit", "not_run", "not_run", <<>>, <<>>),
                          _format_response(cached_result, st2, u, cc, lang,
                                           m1)))
                     /\ UNCHANGED <<now, enable_ml, reqs, scope>>
             ELSE IF enable_ml
             THEN /\ reqs' = [ reqs EXCEPT ![r] =
                                 [ pc |-> "waiting", request |-> req ] ]
                  /\ states' = st1
                  /\ cache' = CacheAfterGet(cache, key, now)
                  /\ UNCHANGED <<now, enable_ml, metrics, events, resp,
                                 recent, scope>>
             ELSE \E ro \in scope.regex_outcomes \ {"pending"} :
                    IF ro = "raised"
                    THEN /\ states' = st1
                         /\ cache' = CacheAfterGet(cache, key, now)
                         /\ Returns(Raised(req,
                              Trace("regex_only", ro, "not_run", <<>>, <<>>)))
                         /\ UNCHANGED <<now, enable_ml, metrics, events,
                                        reqs, scope>>
                    ELSE /\ UNCHANGED <<now, enable_ml, reqs, scope>>
                         /\ LET rr == RegexDetect(text)
                            IN FinishDetection(st1,
                                 CacheAfterGet(cache, key, now), rr, req, key,
                                 Trace("regex_only", ro, "not_run", <<rr>>,
                                       <<>>))

\* Lines 1432-1471: the call from the return of asyncio.wait on.  ro and mo
\* are what the wait finds for the two tasks; reply is what the classifier
\* service did when its task finished.
DetectFinish(r) ==
  /\ Waiting(r)
  /\ \E ro \in scope.regex_outcomes : \E ml_pending \in BOOLEAN :
     \E reply \in IF ml_pending THEN {StubReply} ELSE scope.replies :
       LET req == reqs[r].request
           mo == IF ml_pending THEN "pending"
                 ELSE IF MLRaises(reply) THEN "raised" ELSE "done"
           rr == RegexDetect(req.text)
           mr == MLDetect(reply)
       IN FinishDetection(states, cache, FinalResult(ro, mo, rr, mr), req,
            create_key(req.text, req.context),
            Trace("tiers", ro, mo,
                  IF ro = "done" THEN <<rr>> ELSE <<>>,
                  IF mo = "done" THEN <<mr>> ELSE <<>>))
          /\ reqs' = [ reqs EXCEPT ![r] = AfterWait(ro, mo) ]
  /\ UNCHANGED <<now, enable_ml, scope>>

\* Lines 1432-1434: a task cancelled at the deadline ends at the next
\* iteration of the event loop: CancelledError is thrown into the tier at
\* its await; neither tier catches it, and neither writes anything.
TaskCancelled(r) ==
  /\ reqs[r].pc = "cancelled"
  /\ reqs' = [ reqs EXCEPT ![r] = Idle ]
  /\ UNCHANGED <<now, enable_ml, states, cache, metrics, events, resp,
                 recent, scope>>

\* Time passes between calls (a call is over within its deadline, and the
\* event loop has run by then).
Tick(dt) ==
  /\ \A r \in Reqs : reqs[r] = Idle
  /\ now + dt <= MaxTicks * dt
  /\ now' = now + dt
  /\ UNCHANGED <<enable_ml, states, cache, metrics, events, reqs, resp,
                 recent, scope>>

Next ==
  \/ \E r \in Reqs, text \in scope.texts, u \in scope.users,
        ctx \in scope.contexts, loc \in scope.locales :
        Detect(r, text, u, ctx, loc[1], loc[2])
  \/ \E r \in Reqs : DetectFinish(r)
  \/ \E r \in Reqs : TaskCancelled(r)
  \/ \E dt \in scope.delays : Tick(dt)

Spec == Init /\ [][Next]_vars

\* detect() called again while earlier calls are suspended in asyncio.wait
SpecConcurrent == InitConcurrent /\ [][Next]_vars

\* a user taken past the threshold and left alone until the bypass lapses
SpecRecovery == InitRecovery /\ [][Next]_vars

\* calls that overlap around the one that opens the breaker
SpecOverlap == InitOverlap /\ [][Next]_vars

(***************************************************************************)
(* The analytics logger called directly: AnalyticsLogger(buffer_size=n)    *)
(* with a buffer smaller than the number of detections logged.             *)
(***************************************************************************)
\* the deque's maxlen: the buffer_size argument of the constructor
EventBuffer == ConfigGet(scope.config, "buffer_size", buffer_size)

\* the results handed to log_detection: every severity, fresh or cached
LoggedResults ==
  { [ DefaultResult EXCEPT !.severity = sev, !.cache_hit = hit ] :
      sev \in Severities, hit \in BOOLEAN }

\* a logger built with a buffer of two events
LoggerConfig == { <<"buffer_size", 2>> }

InitLogger ==
  /\ scope = [ Scope({}, {"u1"}, {}, {}, {}, {}, {}, Severities)
                 EXCEPT !.config = LoggerConfig ]
  /\ enable_ml = TRUE
  /\ InitState

\* Lines 1304-1329: the event is appended to the deque, the metrics are
\* updated.
AnalyticsLogDetection(u, result) ==
  /\ metrics.total_detections < scope.calls
  /\ events' = Min2(events + 1, EventBuffer)
  /\ metrics' = _update_metrics(metrics, result)
  /\ resp' = [ returned |-> "logged", user_id |-> u, result |-> result,
               at |-> now ]
  /\ UNCHANGED <<now, enable_ml, states, cache, reqs, recent, scope>>

NextLogger ==
  \E u \in scope.users, result \in LoggedResults :
    AnalyticsLogDetection(u, result)

SpecLogger == InitLogger /\ [][NextLogger]_vars

(***************************************************************************)
(* detect() statement by statement.  From the return of asyncio.wait to    *)
(* its own return a call does not suspend; here that section is taken one  *)
(* statement at a time, one call at a time, so that the states between     *)
(* the statements can be examined.                                         *)
(***************************************************************************)
InitSteps ==
  /\ scope = Scope({TBenign, TModerate}, {"u1"}, {<<>>},
                   {<<"US", None>>}, {1}, {"done"}, {StubReply}, {})
  /\ enable_ml = TRUE
  /\ InitState

\* Lines 1432-1452: asyncio.wait returns, the pending tasks are cancelled,
\* the results of the done tasks are fused.  The slot keeps what the call
\* found when it resumed: the number of events and the user's record.
WaitReturns(r) ==
  /\ Waiting(r)
  /\ \E ro \in scope.regex_outcomes : \E ml_pending \in BOOLEAN :
     \E reply \in IF ml_pending THEN {StubReply} ELSE scope.replies :
       LET req == reqs[r].request
           mo == IF ml_pending THEN "pending"
                 ELSE IF MLRaises(reply) THEN "raised" ELSE "done"
           rr == RegexDetect(req.text)
           mr == MLDetect(reply)
       IN reqs' = [ reqs EXCEPT ![r] =
                      [ pc |-> "fused", request |-> req,
                        final_result |-> FinalResult(ro, mo, rr, mr),
                        trace |-> Trace("tiers", ro, mo,
                                    IF ro = "done" THEN <<rr>> ELSE <<>>,
                                    IF mo = "done" THEN <<mr>> ELSE <<>>),
                        after |-> AfterWait(ro, mo),
                        events |-> events,
                        user_state |->
                          WithUser(states, req.user_id)[req.user_id] ] ]
  /\ UNCHANGED <<now, enable_ml, states, cache, metrics, events, resp,
                 recent, scope>>

\* Lines 1460-1461: self.cache_manager.set(cache_key, final_result)
StoreInCache(r) ==
  /\ reqs[r].pc = "fused"
  /\ cache' = CacheSet(cache,
                 create_key(reqs[r].request.text, reqs[r].request.context),
                 reqs[r].final_result, now)
  /\ reqs' = [ reqs EXCEPT ![r].pc = "stored" ]
  /\ UNCHANGED <<now, enable_ml, states, metrics, events, resp, recent,
                 scope>>

\* Lines 1463-1464: await self.analytics.log_detection(...)
LogDetection(r) ==
  /\ reqs[r].pc = "stored"
  /\ events' = AppendEvent(events)
  /\ metrics' = _update_metrics(metrics, reqs[r].final_result)
  /\ reqs' = [ reqs EXCEPT ![r].pc = "logged" ]
  /\ UNCHANGED <<now, enable_ml, states, cache, resp, recent, scope>>

\* Lines 1466-1468: record_crisis when the severity is moderate or above
RecordIfCrisis(r) ==
  /\ reqs[r].pc = "logged"
  /\ states' = IF reqs[r].final_result.severity >= MODERATE
               THEN record_crisis(states, reqs[r].request.user_id,
                                  reqs[r].final_result.severity, now)
               ELSE states
  /\ reqs' = [ reqs EXCEPT ![r].pc = "recorded" ]
  /\ UNCHANGED <<now, enable_ml, cache, metrics, events, resp, recent,
                 scope>>

\* Lines 1470-1471: _format_response resolves the resources, reads the
\* user's state and the metrics; detect() returns.
FormatAndReturn(r) ==
  /\ reqs[r].pc = "recorded"
  /\ LET req == reqs[r].request
         st2 == get_state(states, req.user_id, now)
     IN /\ states' = st2
        /\ Returns(Responded(req, reqs[r].trace,
                     _format_response(reqs[r].final_result, st2, req.user_id,
                                      req.country_code, req.language,
                                      metrics)))
  /\ reqs' = [ reqs EXCEPT ![r] = reqs[r].after ]
  /\ UNCHANGED <<now, enable_ml, cache, metrics, events, scope>>

NextSteps ==
  \/ \E r \in Reqs, text \in scope.texts, u \in scope.users,
        ctx \in scope.contexts, loc \in scope.locales :
        Detect(r, text, u, ctx, loc[1], loc[2])
  \/ \E r \in Reqs : WaitReturns(r)
  \/ \E r \in Reqs : StoreInCache(r)
  \/ \E r \in Reqs : LogDetection(r)
  \/ \E r \in Reqs : RecordIfCrisis(r)
  \/ \E r \in Reqs : FormatAndReturn(r)
  \/ \E r \in Reqs : TaskCancelled(r)
  \/ \E dt \in scope.delays : Tick(dt)

SpecSteps == InitSteps /\ [][NextSteps]_vars

(***************************************************************************)
(* The circuit breaker called directly                                     *)
(***************************************************************************)
BreakerReturn(op, u, sev, st) ==
  [ returned |-> "breaker", op |-> op, user_id |-> u, severity |-> sev,
    at |-> now, known |-> u \in DOMAIN states,
    before |-> WithUser(states, u)[u],
    result |-> WithUser(st, u)[u] ]

BreakerFrame == UNCHANGED <<now, enable_ml, cache, metrics, events, reqs,
                            recent, scope>>

GetState(u) ==
  /\ states' = get_state(states, u, now)
  /\ resp' = BreakerReturn("get_state", u, NONE, get_state(states, u, now))
  /\ BreakerFrame

RecordCrisis(u, sev) ==
  /\ WithUser(states, u)[u].crisis_count < MaxCrisisCount
  /\ states' = record_crisis(states, u, sev, now)
  /\ resp' = BreakerReturn("record_crisis", u, sev,
                           record_crisis(states, u, sev, now))
  /\ BreakerFrame

ResetUser(u) ==
  /\ states' = reset(states, u)
  /\ resp' = BreakerReturn("reset", u, NONE, reset(states, u))
  /\ BreakerFrame

\* should_bypass_analysis() called on the state object of a user the
\* breaker knows
ShouldBypassAnalysis(u) ==
  /\ u \in DOMAIN states
  /\ resp' = [ returned |-> "breaker", op |-> "should_bypass_analysis",
               user_id |-> u, severity |-> NONE, at |-> now, known |-> TRUE,
               before |-> states[u], result |-> states[u],
               bypass |-> should_bypass_analysis(states[u], now) ]
  /\ UNCHANGED states
  /\ BreakerFrame

NextBreaker ==
  \/ \E u \in scope.users : GetState(u)
  \/ \E u \in scope.users : ShouldBypassAnalysis(u)
  \/ \E u \in scope.users, sev \in scope.severities : RecordCrisis(u, sev)
  \/ \E u \in scope.users : ResetUser(u)
  \/ \E dt \in scope.delays : Tick(dt)

SpecBreaker == InitBreaker /\ [][NextBreaker]_vars

(***************************************************************************)
(* The resource manager called directly                                    *)
(***************************************************************************)
\* country codes of the directory, and one that is absent from it
CountryCodes == DOMAIN _load_resources \cup {"ZZ"}
Languages == {"en", "es", "fr", "pt", "zh", "de"}

InitResources ==
  /\ scope = Scope({}, {}, {}, {}, {}, {}, {}, Severities)
  /\ enable_ml = TRUE
  /\ InitState

GetResources(country_code, language, severity) ==
  /\ resp' = [ returned |-> "resources", country_code |-> country_code,
               language |-> language, severity |-> severity,
               result |-> get_resources(country_code, language, severity) ]
  /\ UNCHANGED <<now, enable_ml, states, cache, metrics, events, reqs,
                 recent, scope>>

NextResources ==
  \E cc \in CountryCodes, language \in Languages,
     severity \in scope.severities : GetResources(cc, language, severity)

SpecResources == InitResources /\ [][NextResources]_vars

(***************************************************************************)
(* The classifier called directly                                          *)
(***************************************************************************)
\* what the service can do for one request
ServiceReplies ==
  { MLReply(t1, c1, t2, label, c2) :
      t1 \in {"SAFE", "CONCERN", "timeout", "error"}, c1 \in {75, 90},
      t2 \in {"ok", "timeout", "error"},
      label \in {"none", "low", "moderate", "high", "critical"},
      c2 \in {82, 90} }

InitML ==
  /\ scope = Scope({}, {}, {}, {}, {}, {}, ServiceReplies, {})
  /\ enable_ml = TRUE
  /\ InitState

MLDetectorDetect(reply) ==
  /\ resp' = [ returned |-> "ml", reply |-> reply,
               stages |-> MLStages(reply), raised |-> MLRaises(reply),
               result |-> IF MLRaises(reply) THEN <<>>
                          ELSE <<MLDetect(reply)>> ]
  /\ UNCHANGED <<now, enable_ml, states, cache, metrics, events, reqs,
                 recent, scope>>

NextML == \E reply \in scope.replies : MLDetectorDetect(reply)

SpecML == InitML /\ [][NextML]_vars

(***************************************************************************)
(* The decision fuser called directly                                      *)
(***************************************************************************)
\* a text that matches every pattern of the English sample
TAllPatterns == <<"kill myself", "can't go on", "breaking point">>

\* results of the pattern matcher and of the classifier
PatternResults ==
  { RegexDetect(text) : text \in {TBenign, TModerate, TFalsePositive,
                                   TAllPatterns} }

ClassifierResults ==
  { MLDetect(reply) : reply \in { x \in ServiceReplies : ~MLRaises(x) } }

\* the lists given to the fuser: up to MaxResults results, one of them at
\* most from the classifier
ResultLists ==
  { rs \in UNION { [1..n -> PatternResults \cup ClassifierResults] :
                     n \in 0..MaxResults } :
      Cardinality({ i \in DOMAIN rs :
                      IsMLMethod(rs[i].detection_method) }) <= 1 }

InitFuser ==
  /\ scope = Scope({}, {}, {}, {}, {}, {}, {}, {})
  /\ enable_ml = TRUE
  /\ InitState

\* _fuse_results() reads and writes no state: one call per behaviour
FuseResults(results) ==
  /\ resp.returned = "none"
  /\ resp' =[ returned |-> "fused", results |-> results,
               result |-> _fuse_results(results) ]
  /\ UNCHANGED <<now, enable_ml, states, cache, metrics, events, reqs,
                 recent, scope>>

NextFuser == \E results \in ResultLists : FuseResults(results)

SpecFuser == InitFuser /\ [][NextFuser]_vars

(***************************************************************************)
(* The cache manager called directly                                       *)
(***************************************************************************)
InitCache ==
  /\ scope = [ Scope({TBenign, TModerate}, {}, {<<>>}, {}, {}, {}, {}, {})
                EXCEPT !.delays = CacheDelays ]
  /\ enable_ml = TRUE
  /\ InitState

CacheFrame == UNCHANGED <<now, enable_ml, states, metrics, events, reqs,
                          recent, scope>>

CacheManagerGet(key) ==
  /\ cache' = CacheAfterGet(cache, key, now)
  /\ resp' = [ returned |-> "cache", op |-> "get", key |-> key, at |-> now,
               before |-> cache,
               result |-> IF CacheFresh(cache, key, now)
                          THEN <<CacheGet(cache, key, now)>> ELSE <<>> ]
  /\ CacheFrame

CacheManagerSet(key, result) ==
  /\ cache' = CacheSet(cache, key, result, now)
  /\ resp' = [ returned |-> "cache", op |-> "set", key |-> key, at |-> now,
               before |-> cache, result |-> <<result>> ]
  /\ CacheFrame

NextCache ==
  \/ \E text \in scope.texts, ctx \in scope.contexts :
        CacheManagerGet(create_key(text, ctx))
  \/ \E text \in scope.texts, ctx \in scope.contexts, t2 \in scope.texts :
        CacheManagerSet(create_key(text, ctx), RegexDetect(t2))
  \/ \E dt \in scope.delays : Tick(dt)

SpecCache == InitCache /\ [][NextCache]_vars

(***************************************************************************)
(* create_key called directly, twice on the same text                      *)
(***************************************************************************)
\* context entries: two plain messages and one that contains the text the
\* entries are joined with
ContextEntries == { <<"a">>, <<"b">>, <<"a", "|||", "a">> }

KeyContexts ==
  UNION { [1..n -> ContextEntries] : n \in 0..MaxContext }

InitKey ==
  /\ scope = Scope({TBenign, TModerate}, {}, KeyContexts, {}, {}, {}, {}, {})
  /\ enable_ml = TRUE
  /\ InitState

KeyCall(text, context) ==
  [ text |-> text, context |-> context, key |-> create_key(text, context) ]

CreateKey(text, context) ==
  /\ \/ resp.returned = "none"
     \/ resp.returned = "key" /\ resp.prev = <<>> /\ text = resp.call.text
  /\ resp' = [ returned |-> "key", call |-> KeyCall(text, context),
               prev |-> IF resp.returned = "key" THEN <<resp.call>>
                        ELSE <<>> ]
  /\ UNCHANGED <<now, enable_ml, states, cache, metrics, events, reqs,
                 recent, scope>>

NextKey ==
  \E text \in scope.texts, context \in scope.contexts :
     CreateKey(text, context)

SpecKey == InitKey /\ [][NextKey]_vars

(***************************************************************************)
(* Properties                                                              *)
(***************************************************************************)
\* the last return was from detect()
IsCall == resp.returned \in {"response", "exception"}
Decided == resp.returned = "response"
Path == resp.trace.path
Detection == resp.response.detection
DecidedSeverity == severity_map(Detection.severity)

\* C1: with the classifier enabled, when neither tier's task has delivered
\* a result at the deadline (both pending, or a task raised), the decision
\* is the fallback: severity moderate, action monitor.
C1_FallbackWhenNoTierDelivers ==
  (IsCall /\ Path = "tiers" /\ resp.trace.regex_outcome # "done"
     /\ resp.trace.ml_outcome # "done")
  => /\ Decided
     /\ Detection.severity = "moderate"
     /\ Detection.action = MONITOR
     /\ Detection.method = "fallback"
     /\ Detection.confidence = 50

C1_Witness ==
  /\ IsCall /\ Path = "tiers"
  /\ resp.trace.regex_outcome = "pending" /\ resp.trace.ml_outcome = "pending"
  /\ Decided /\ Detection.severity = "moderate"

\* the tiers of the last call ran without an injected fault
TiersRan ==
  /\ IsCall /\ Path \in {"tiers", "regex_only"}
  /\ resp.trace.regex_outcome = "done"
  /\ resp.trace.ml_outcome \in {"done", "pending", "not_run"}

ContainsCriticalPhrase(text) ==
  \E i \in DOMAIN text : text[i] \in CriticalPhrases

\* C2: failure handling never under-escalates: when one tier's task is done
\* with severity S and awaiting the other tier's task raises, the decision's
\* severity is at least S.
C2_FailureNeverUnderEscalates ==
  /\ (IsCall /\ Path = "tiers" /\ resp.trace.regex_outcome = "done"
        /\ resp.trace.ml_outcome = "raised")
     => (Decided /\ DecidedSeverity >= resp.trace.regex_result[1].severity)
  /\ (IsCall /\ Path = "tiers" /\ resp.trace.regex_outcome = "raised"
        /\ resp.trace.ml_outcome = "done")
     => (Decided /\ DecidedSeverity >= resp.trace.ml_result[1].severity)

\* C3: a call that is not bypassed, on a text containing a critical phrase
\* of some catalogue, returns severity high or critical and action interrupt,
\* whatever the classifier did (not run, not completed, or completed with
\* any severity and confidence).
C3_CriticalPhraseInterrupts ==
  (TiersRan /\ ContainsCriticalPhrase(resp.request.text))
  => /\ Decided
     /\ DecidedSeverity >= HIGH
     /\ Detection.action = INTERRUPT

\* C9: a call that is not bypassed, on a text matching a false-positive
\* expression, returns severity none, whatever crisis patterns the text
\* also matches and whatever the classifier contributes.
C9_FalsePositiveIsNone ==
  (TiersRan /\ _is_false_positive(resp.request.text))
  => (Decided /\ DecidedSeverity = NONE)

\* C10: an error raised by a tier never leaves detect(): the call ends in a
\* returned decision, with the classifier enabled or disabled.
C10_NoTierErrorEscapes ==
  (IsCall /\ (resp.trace.regex_outcome = "raised"
                \/ resp.trace.ml_outcome = "raised"))
  => Decided

\* the last three calls were user u's, each returned a decision of severity
\* moderate or above, all within the rolling window, and the third has just
\* returned
ThreeCrisisCalls(u) ==
  /\ Len(recent) = 3
  /\ \A i \in 1..3 : /\ recent[i].user_id = u
                      /\ recent[i].decided
                      /\ recent[i].severity >= MODERATE
  /\ recent[3].at - recent[1].at <= window_seconds
  /\ recent[3].at = now
  /\ \A r \in Reqs : ~Waiting(r)

RanTiers(call) == call.path \in {"tiers", "regex_only"}

\* C4 as stated: any three consecutive calls of a user that each return
\* severity moderate or above within the window leave the breaker OPEN.
C4_ThreeCrisisCallsOpen ==
  \A u \in scope.users : ThreeCrisisCalls(u) => states[u].state = OPEN

\* C4: three consecutive calls of a user that each run the tiers (no bypass,
\* no cache hit) and return severity moderate or above, all within the
\* rolling window, leave the user's breaker OPEN after the third.
C4_ThreeDetectionsOpen ==
  \A u \in scope.users :
     (ThreeCrisisCalls(u) /\ \A i \in 1..3 : RanTiers(recent[i]))
     => states[u].state = OPEN

C4_Witness ==
  \E u \in scope.users :
     /\ ThreeCrisisCalls(u)
     /\ \A i \in 1..3 : RanTiers(recent[i])
     /\ recent[1].text # recent[2].text
     /\ states[u].state = OPEN /\ states[u].crisis_count = 3

\* two calls with the same arguments, the first returning a decision and
\* the second made within the cache's time to live
SameCallTwice(i, j) ==
  /\ i < j
  /\ recent[i].user_id = recent[j].user_id
  /\ recent[i].text = recent[j].text
  /\ recent[i].context = recent[j].context
  /\ recent[i].decided
  /\ recent[j].at - recent[i].at < ttl_seconds

SameDecision(i, j) ==
  /\ recent[j].decided
  /\ recent[j].severity = recent[i].severity
  /\ recent[j].confidence = recent[i].confidence
  /\ recent[j].cache_hit

\* C7 as stated: in every user state, the second of two calls with the same
\* arguments within the time to live returns the first call's severity and
\* confidence with cache_hit true.
C7_SecondCallIsCacheHit ==
  \A i, j \in DOMAIN recent : SameCallTwice(i, j) => SameDecision(i, j)

\* C7: when the first call ran the tiers and the second is not bypassed,
\* the second of two calls with the same arguments within the time to live
\* returns the first call's severity and confidence with cache_hit true.
C7_SecondCallIsCacheHitUnlessBypassed ==
  \A i, j \in DOMAIN recent :
     (SameCallTwice(i, j) /\ RanTiers(recent[i])
        /\ recent[j].path # "bypass")
     => SameDecision(i, j)

C7_Witness ==
  \E i, j \in DOMAIN recent :
     /\ SameCallTwice(i, j) /\ RanTiers(recent[i])
     /\ recent[j].at > recent[i].at
     /\ recent[j].path = "cache_hit" /\ SameDecision(i, j)
     /\ recent[j].severity >= MODERATE

\* what record_crisis() writes of a user's state besides the circuit state
CrisisRecord(us) ==
  [ crisis_count |-> us.crisis_count,
    last_crisis_time |-> us.last_crisis_time,
    severity_history |-> us.severity_history ]

SaysBypass(u) == should_bypass_analysis(get_state(states, u, now)[u], now)

\* a call that returns in this step without having suspended
C5_BypassStep ==
  (recent' # recent /\ reqs' = reqs /\ SaysBypass(resp'.request.user_id))
  => LET u == resp'.request.user_id
     IN /\ resp'.returned = "response"
        /\ resp'.trace.path = "bypass"
        /\ resp'.trace.regex_outcome = "not_run"
        /\ resp'.trace.ml_outcome = "not_run"
        /\ resp'.response.detection.bypassed_analysis
        /\ resp'.response.detection.severity = "high"
        /\ resp'.response.detection.action = INTERRUPT
        /\ cache' = cache
        /\ CrisisRecord(states'[u]) = CrisisRecord(WithUser(states, u)[u])

\* a call that suspends in this step, its tiers started
C5_NoTierStarted ==
  \A r \in Reqs :
     (reqs[r].pc = "idle" /\ reqs'[r].pc = "waiting")
     => ~SaysBypass(reqs'[r].request.user_id)

\* C5: when the user's state says bypass at the start of a call, the call
\* returns a response marked bypassed with severity high and action
\* interrupt; no tier is started, the cache is left as it was, and the
\* user's crisis count, last crisis time and severity history are unchanged.
C5_BypassResponse == [][C5_BypassStep /\ C5_NoTierStarted]_vars

C5_Witness ==
  /\ IsCall /\ Decided /\ Path = "bypass"
  /\ Detection.bypassed_analysis /\ Detection.severity = "high"
  /\ states[resp.request.user_id].crisis_count >= threshold
  /\ cache # << >>

\* C6: a cache hit starts no tier and records no crisis: the user's crisis
\* count, last crisis time and severity history are unchanged, and the
\* circuit state is unchanged unless the read moved it from OPEN to
\* HALF_OPEN.
C6_CacheHitRecordsNothing ==
  [][ (metrics'.cache_hits # metrics.cache_hits)
      => LET u == resp'.request.user_id
             before == WithUser(states, u)[u]
             after == states'[u]
         IN /\ resp'.trace.path = "cache_hit"
            /\ resp'.trace.regex_outcome = "not_run"
            /\ resp'.trace.ml_outcome = "not_run"
            /\ reqs' = reqs
            /\ CrisisRecord(after) = CrisisRecord(before)
            /\ \/ after.state = before.state
               \/ before.state = OPEN /\ after.state = HALF_OPEN ]_vars

C6_Witness ==
  /\ IsCall /\ Decided /\ Path = "cache_hit"
  /\ Detection.cache_hit /\ DecidedSeverity >= MODERATE
  /\ metrics.cache_hits = 2
  /\ states[resp.request.user_id].crisis_count = 1

\* the last return was from get_state() on a user whose breaker was OPEN
GetStateOnOpen ==
  /\ resp.returned = "breaker" /\ resp.op = "get_state"
  /\ resp.before.state = OPEN /\ resp.before.last_crisis_time # <<>>

SinceLastCrisis == resp.at - resp.before.last_crisis_time[1]

\* C8: get_state() on an OPEN breaker returns HALF_OPEN when more than the
\* recovery period has passed since the user's last recorded crisis, and
\* leaves the state OPEN when the recovery period has not passed.
C8_RecoveryOnRead ==
  GetStateOnOpen
  => /\ SinceLastCrisis > recovery_seconds => resp.result.state = HALF_OPEN
     /\ SinceLastCrisis < recovery_seconds => resp.result.state = OPEN
     /\ CrisisRecord(resp.result) = CrisisRecord(resp.before)

C8_Witness ==
  /\ GetStateOnOpen
  /\ SinceLastCrisis > recovery_seconds
  /\ SinceLastCrisis <= window_seconds
  /\ resp.result.state = HALF_OPEN
  /\ states[resp.user_id].state = HALF_OPEN

\* what fusion is given when only the tiers done at the deadline count
DoneResults ==
  (IF resp.trace.regex_outcome = "done"
   THEN <<RegexDetect(resp.request.text)>> ELSE <<>>)
  \o (IF resp.trace.ml_outcome = "done" THEN resp.trace.ml_result ELSE <<>>)

DecisionFromDone ==
  IF DoneResults = <<>> THEN _create_fallback_result
  ELSE _fuse_results(DoneResults)

C11_FusionOfDoneTiers ==
  (IsCall /\ Path = "tiers" /\ resp.trace.regex_outcome # "raised"
     /\ resp.trace.ml_outcome # "raised")
  => /\ Decided
     /\ Detection.severity = SeverityLabel(DecisionFromDone.severity)
     /\ Detection.confidence = DecisionFromDone.confidence
     /\ Detection.action = DecisionFromDone.recommended_action
     /\ Detection.categories = DecisionFromDone.categories
     /\ Detection.method = DecisionFromDone.detection_method

C11_CancelledTaskStep ==
  (\E r \in Reqs : reqs[r].pc = "cancelled" /\ reqs'[r].pc # "cancelled")
  => UNCHANGED <<states, cache, metrics, events, resp>>

\* C11: a tier still running at the deadline is cancelled and contributes
\* nothing: the decision is the fusion of exactly the results of the tiers
\* that were done (the fallback when there is none), and the step in which
\* a cancelled task ends writes no shared state.
C11_CancelledTierContributesNothing ==
  []C11_FusionOfDoneTiers /\ [][C11_CancelledTaskStep]_vars

C11_Witness ==
  /\ IsCall /\ Decided /\ Path = "tiers"
  /\ resp.trace.regex_outcome = "done" /\ resp.trace.ml_outcome = "pending"
  /\ \E r \in Reqs : reqs[r].pc = "cancelled" /\ reqs[r].tasks = {"ml"}
  /\ Detection.severity = "none" /\ Detection.method = "fusion"

\* the last return was from get_resources()
ResourcesReturned == resp.returned = "resources"

\* the country's list that get_resources() reads
DirectoryOf(country_code) ==
  IF country_code \in DOMAIN _load_resources
  THEN _load_resources[country_code] ELSE _load_resources["US"]

\* the resources of the country that pass the language filter
Eligible(country_code, language) ==
  { r \in { DirectoryOf(country_code)[i] :
              i \in DOMAIN DirectoryOf(country_code) } :
      language \in r.languages \/ "en" \in r.languages }

\* C12: get_resources() returns at most 3 resources for severity high or
\* critical and at most 2 otherwise, in ascending priority, and they are the
\* eligible resources of the country with the lowest priority ranks.
C12_ResourcesCappedAndSorted ==
  ResourcesReturned
  => LET rs == resp.result
         limit == IF resp.severity >= HIGH THEN 3 ELSE 2
         eligible == Eligible(resp.country_code, resp.language)
         returned == { rs[i] : i \in DOMAIN rs }
     IN /\ Len(rs) <= limit
        /\ Len(rs) = Min2(limit, Cardinality(eligible))
        /\ \A i, j \in DOMAIN rs : i < j => rs[i].priority <= rs[j].priority
        /\ returned \subseteq eligible
        /\ Cardinality(returned) = Len(rs)
        /\ \A r \in eligible \ returned :
              \A i \in DOMAIN rs : rs[i].priority <= r.priority

C12_Witness ==
  /\ ResourcesReturned
  /\ resp.country_code = "US" /\ resp.language = "es"
  /\ resp.severity = MODERATE
  /\ Len(resp.result) = 2
  /\ Cardinality(Eligible("US", "es")) > 3

\* C13: for a country code absent from the directory, get_resources()
\* returns what it returns for US with the same language and severity, and
\* that list is not empty.
C13_UnknownCountryGetsDefault ==
  (ResourcesReturned /\ resp.country_code \notin DOMAIN _load_resources)
  => /\ resp.result = get_resources("US", resp.language, resp.severity)
     /\ resp.result # <<>>
     /\ \A i \in DOMAIN resp.result :
           \E j \in DOMAIN _load_resources["US"] :
              resp.result[i] = _load_resources["US"][j]

C13_Witness ==
  /\ ResourcesReturned
  /\ resp.country_code = "ZZ" /\ resp.language = "fr"
  /\ resp.severity = CRITICAL
  /\ Len(resp.result) = 3

MatchesNoCrisisPattern(text) ==
  \A l \in DOMAIN get_patterns : \A k \in DOMAIN get_patterns[l] :
     MatchPositions(get_patterns[l][k], text) = {}

\* the first call of a new user, on a text matching no crisis pattern
BenignFirstCall ==
  /\ TiersRan /\ Len(recent) = 1
  /\ MatchesNoCrisisPattern(resp.request.text)

NothingDetected ==
  /\ Decided
  /\ Detection.severity = "none"
  /\ Detection.action = PROCEED
  /\ ~resp.response.has_resources
  /\ resp.response.resources = <<>>

\* C14 as stated: for a new user and a text matching no crisis pattern the
\* decision is none / proceed without resources, whether or not the
\* classifier completes before the deadline.
C14_BenignTextProceeds == BenignFirstCall => NothingDetected

\* C14: for a new user and a text matching no crisis pattern the decision
\* is none / proceed without resources when the classifier is disabled,
\* does not complete before the deadline, or completes with severity none.
C14_BenignTextProceedsUnlessClassified ==
  (BenignFirstCall
     /\ (resp.trace.ml_outcome = "done"
           => resp.trace.ml_result[1].severity = NONE))
  => NothingDetected

C14_Witness ==
  /\ BenignFirstCall
  /\ resp.trace.ml_outcome = "done"
  /\ resp.trace.ml_result[1].severity = NONE
  /\ NothingDetected

\* C15: a failure computing the cache key (or reading or storing the cache)
\* is treated as a cache miss: the call still runs the tiers and returns a
\* decision.
C15_CacheFailureIsMiss ==
  (IsCall /\ Path # "bypass"
     /\ create_key_raises(resp.request.text, resp.request.context))
  => (Decided /\ Path \in {"tiers", "regex_only"})

\* C16: a user whose breaker is HALF_OPEN is not bypassed:
\* should_bypass_analysis() is false for every such user, and no call
\* returns a bypassed response for a user in state HALF_OPEN.
C16_HalfOpenNotBypassed ==
  /\ \A u \in DOMAIN states :
        get_state(states, u, now)[u].state = HALF_OPEN
        => ~should_bypass_analysis(get_state(states, u, now)[u], now)
  /\ (IsCall /\ Decided /\ Path = "bypass")
     => resp.response.user_state.circuit_state # HALF_OPEN

\* the last return was from MLDetector.detect(), and one of the stages it
\* invoked raised asyncio.TimeoutError
StageTimedOut ==
  /\ resp.returned = "ml"
  /\ \/ resp.reply.tier1 = "timeout"
     \/ /\ resp.reply.tier1 \notin {"SAFE", "timeout", "error"}
        /\ resp.reply.tier2 = "timeout"

\* C17: when either stage of the classifier times out, MLDetector.detect
\* does not raise; it returns severity moderate, confidence 0.5, action
\* monitor.
C17_StageTimeoutGivesFallback ==
  StageTimedOut
  => /\ ~resp.raised
     /\ resp.result # <<>>
     /\ resp.result[1].severity = MODERATE
     /\ resp.result[1].confidence = 50
     /\ resp.result[1].recommended_action = MONITOR

C17_Witness ==
  /\ StageTimedOut
  /\ resp.stages = <<"tier1", "tier2">>
  /\ resp.reply.severity = "critical"
  /\ resp.result[1].detection_method = "ml_timeout_fallback"

\* what the supervisor was configured with, the defaults where it was not
ConfiguredThreshold == ConfigGet(scope.config, "circuit_threshold", 3)
ConfiguredWindow == ConfigGet(scope.config, "circuit_window", 1800)
ConfiguredRecovery == ConfigGet(scope.config, "circuit_recovery", 900)

\* C18: the supervisor's breaker uses the configured threshold, rolling
\* window and recovery period: with a configured recovery period R,
\* get_state() on an OPEN user returns HALF_OPEN once more than R has
\* passed since the user's last crisis.
C18_ConfigurationGovernsBreaker ==
  /\ circuit_breaker.threshold = ConfiguredThreshold
  /\ circuit_breaker.window = ConfiguredWindow
  /\ GetStateOnOpen /\ SinceLastCrisis > ConfiguredRecovery
     => resp.result.state = HALF_OPEN

\* C19: every detect() call that returns a decision (tiers run, cache hit
\* or bypassed) appends exactly one audit event and adds exactly one to
\* the total-detections metric.
C19_EveryDecisionLogged ==
  [][ (resp' # resp /\ resp'.returned = "response")
      => /\ events' = events + 1
         /\ metrics'.total_detections = metrics.total_detections + 1 ]_vars

\* the step is the return of a call that reached record_crisis()
ReachesRecordCrisis ==
  /\ resp' # resp
  /\ resp'.returned = "response"
  /\ resp'.trace.path \in {"tiers", "regex_only"}
  /\ severity_map(resp'.response.detection.severity) >= MODERATE

C20_RecordingStep ==
  ReachesRecordCrisis
  => LET u == resp'.request.user_id
         before == WithUser(states, u)[u]
         after == states'[u]
     IN (before.last_crisis_time = <<>>
           \/ now - before.last_crisis_time[1] <= window_seconds)
        => /\ after.crisis_count = before.crisis_count + 1
           /\ after.severity_history
                = Append(before.severity_history,
                         severity_map(resp'.response.detection.severity))
           /\ after.last_crisis_time = <<now>>

C20_OtherStep ==
  \A u \in scope.users :
    (u \in DOMAIN states'
       /\ CrisisRecord(states'[u]) # CrisisRecord(WithUser(states, u)[u]))
    => ReachesRecordCrisis /\ resp'.request.user_id = u

\* C20: with calls for one user in flight together, every call that
\* reaches record_crisis() within the rolling window adds exactly one to the
\* user's crisis count and exactly one entry to the severity history, and
\* no other step changes them: k recordings grow both by exactly k.
C20_NoRecordingLost ==
  /\ [][C20_RecordingStep /\ C20_OtherStep]_vars
  /\ [](\A u \in DOMAIN states :
          Len(states[u].severity_history) = states[u].crisis_count)

\* two calls with the same arguments both ran their tiers and returned at
\* the same instant (the second began before the first had stored its
\* result), and both were recorded
C20_Witness ==
  /\ Len(recent) >= 2
  /\ LET a == recent[Len(recent) - 1]
         b == recent[Len(recent)]
     IN /\ a.path = "tiers" /\ b.path = "tiers"
        /\ a.user_id = b.user_id /\ a.text = b.text /\ a.at = b.at
        /\ a.context = b.context
        /\ a.severity >= MODERATE /\ b.severity >= MODERATE
        /\ states[b.user_id].crisis_count = 2
        /\ Len(states[b.user_id].severity_history) = 2

\* the last return was from _fuse_results() on a non-empty list
Fused == resp.returned = "fused" /\ resp.results # <<>>

\* the positions of the classifier's results with confidence above 0.85
ConfidentClassifier ==
  { i \in DOMAIN resp.results :
      /\ IsMLMethod(resp.results[i].detection_method)
      /\ resp.results[i].confidence > 85 }

\* C21: on a non-empty list _fuse_results returns the severity of the
\* classifier's result when that result has confidence above 0.85 and the
\* maximum severity otherwise, the maximum confidence, the union of the
\* categories and the first five of the concatenated indicators; on the
\* empty list it returns the fallback (moderate, 0.5, monitor).
C21_FuserContract ==
  /\ (resp.returned = "fused" /\ resp.results = <<>>)
     => /\ resp.result.severity = MODERATE
        /\ resp.result.confidence = 50
        /\ resp.result.recommended_action = MONITOR
  /\ Fused
     => LET rs == resp.results
            out == resp.result
            all == ConcatIndicators(rs)
        IN /\ \A i \in ConfidentClassifier : out.severity = rs[i].severity
           /\ ConfidentClassifier = {}
              => /\ \A i \in DOMAIN rs : out.severity >= rs[i].severity
                 /\ \E i \in DOMAIN rs : out.severity = rs[i].severity
           /\ \A i \in DOMAIN rs : out.confidence >= rs[i].confidence
           /\ \E i \in DOMAIN rs : out.confidence = rs[i].confidence
           /\ \A c \in out.categories :
                \E i \in DOMAIN rs : c \in rs[i].categories
           /\ \A i \in DOMAIN rs : rs[i].categories \subseteq out.categories
           /\ Len(out.indicators) = Min2(5, Len(all))
           /\ \A k \in DOMAIN out.indicators : out.indicators[k] = all[k]

\* the classifier overrides a higher severity, and the indicators are cut
C21_Witness ==
  /\ Fused
  /\ ConfidentClassifier # {}
  /\ \E i \in DOMAIN resp.results :
       resp.results[i].severity > resp.result.severity
  /\ Len(ConcatIndicators(resp.results)) > 5
  /\ Len(resp.result.indicators) = 5

\* the fixed rule from severity to action and resource requirement
FollowsSeverityRule(sev, action, required) ==
  /\ sev >= HIGH => action = INTERRUPT /\ required
  /\ sev = MODERATE => action = MONITOR /\ ~required
  /\ sev < MODERATE => action = PROCEED /\ ~required

ResultFollowsRule(r) ==
  FollowsSeverityRule(r.severity, r.recommended_action, r.requires_resources)

\* C22: in every result of the pattern matcher, of the classifier (its
\* timeout fallback included), of the fuser, in the supervisor's fallback
\* and in the bypass response, action and resource requirement follow from
\* the severity: high or above interrupts with resources, moderate monitors
\* without, none and low proceed without.  The results are those of the
\* last return: the tiers' results and the decision of a detect() call, or
\* the result of the classifier or the fuser called directly.
C22_ActionFollowsSeverity ==
  /\ IsCall
     => /\ \A i \in DOMAIN resp.trace.regex_result :
             ResultFollowsRule(resp.trace.regex_result[i])
        /\ \A i \in DOMAIN resp.trace.ml_result :
             ResultFollowsRule(resp.trace.ml_result[i])
        /\ (Decided /\ Path # "bypass")
           => FollowsSeverityRule(DecidedSeverity, Detection.action,
                                  resp.response.has_resources)
        /\ (Decided /\ Path = "bypass")
           => /\ DecidedSeverity = HIGH
              /\ Detection.action = INTERRUPT
              /\ resp.response.resources
                   = ResourceNames(get_resources(
                       resp.request.country_code,
                       IF resp.request.language # None
                       THEN resp.request.language ELSE "en", HIGH))
  /\ (resp.returned = "ml" /\ ~resp.raised)
     => ResultFollowsRule(resp.result[1])
  /\ resp.returned = "fused"
     => /\ ResultFollowsRule(resp.result)
        /\ \A i \in DOMAIN resp.results : ResultFollowsRule(resp.results[i])

\* a decision fused from a pattern result that interrupts and the
\* classifier's timeout fallback
C22_Witness ==
  /\ IsCall /\ Decided /\ Path = "tiers"
  /\ resp.trace.regex_result # <<>> /\ resp.trace.ml_result # <<>>
  /\ resp.trace.regex_result[1].severity = CRITICAL
  /\ resp.trace.ml_result[1].detection_method = "ml_timeout_fallback"
  /\ resp.trace.ml_result[1].recommended_action = MONITOR
  /\ Detection.method = "fusion"
  /\ Detection.action = INTERRUPT
  /\ resp.response.has_resources

\* the last return was from should_bypass_analysis()
AskedBypass ==
  resp.returned = "breaker" /\ resp.op = "should_bypass_analysis"

\* C23: should_bypass_analysis() with the default window is true exactly
\* when the state is OPEN, or the last crisis was less than 30 minutes ago
\* and the crisis count is at least 3; it is false for a user with no
\* recorded crisis.
C23_BypassExactly ==
  AskedBypass
  => /\ resp.bypass
         <=> \/ resp.before.state = OPEN
             \/ /\ resp.before.last_crisis_time # <<>>
                /\ resp.at - resp.before.last_crisis_time[1] < 30 * 60
                /\ resp.before.crisis_count >= 3
     /\ resp.before.last_crisis_time = <<>> => ~resp.bypass

\* true for a user whose state has left OPEN
C23_Witness ==
  /\ AskedBypass
  /\ resp.bypass
  /\ resp.before.state = HALF_OPEN
  /\ resp.before.crisis_count >= 3

\* the last return was from record_crisis()
Recorded == resp.returned = "breaker" /\ resp.op = "record_crisis"

\* the user's last crisis was older than the rolling window at the call
LastCrisisOutsideWindow ==
  /\ resp.before.last_crisis_time # <<>>
  /\ resp.at - resp.before.last_crisis_time[1] > ConfiguredWindow

\* C24: record_crisis() resets the count and the severity history when the
\* user's last crisis is older than the rolling window, so that the count
\* after the call is 1, and otherwise adds 1 to the count; in both cases
\* the severity is appended, the last crisis time becomes now, and the
\* state is OPEN when the resulting count reaches the threshold.
C24_RecordCrisis ==
  Recorded
  => /\ LastCrisisOutsideWindow
        => /\ resp.result.crisis_count = 1
           /\ resp.result.severity_history = <<resp.severity>>
     /\ ~LastCrisisOutsideWindow
        => /\ resp.result.crisis_count = resp.before.crisis_count + 1
           /\ resp.result.severity_history
                = Append(resp.before.severity_history, resp.severity)
     /\ resp.result.last_crisis_time = <<resp.at>>
     /\ resp.result.crisis_count >= ConfiguredThreshold
        => resp.result.state = OPEN
     /\ states[resp.user_id] = resp.result

\* a recording that reset a longer history
C24_Witness ==
  /\ Recorded
  /\ LastCrisisOutsideWindow
  /\ resp.before.crisis_count >= 2
  /\ resp.result.crisis_count = 1
  /\ Len(resp.result.severity_history) = 1

\* C25: reset(user) leaves that user with a fresh record (CLOSED, count 0,
\* empty severity history, no last crisis time) whatever the record was,
\* and changes the record of no other user.
C25_ResetOneUser ==
  [][ (resp' # resp /\ resp'.returned = "breaker" /\ resp'.op = "reset")
      => LET u == resp'.user_id
         IN /\ WithUser(states', u)[u]
                 = [ state |-> CLOSED, crisis_count |-> 0,
                     last_crisis_time |-> <<>>, severity_history |-> <<>> ]
            /\ DOMAIN states' = DOMAIN states
            /\ \A v \in DOMAIN states \ {u} : states'[v] = states[v] ]_vars

\* an OPEN user was reset while another user keeps a recorded crisis
C25_Witness ==
  /\ resp.returned = "breaker" /\ resp.op = "reset"
  /\ resp.before.state = OPEN
  /\ states[resp.user_id].state = CLOSED
  /\ states[resp.user_id].crisis_count = 0
  /\ \E v \in DOMAIN states \ {resp.user_id} : states[v].crisis_count > 0

\* the last return was from CacheManager.get() / CacheManager.set()
CacheGot == resp.returned = "cache" /\ resp.op = "get"
CacheWasSet == resp.returned = "cache" /\ resp.op = "set"

\* the age at the call of the entry the key had
EntryAge == resp.at - resp.before[resp.key].timestamp

\* C26: get() returns no entry whose age has reached the time to live: for
\* an entry younger than that it returns the stored result with cache_hit
\* set and keeps the entry; for an older entry it removes the entry and
\* returns nothing; set() overwrites the key's entry and restarts its age
\* at 0.
C26_CacheGetSet ==
  /\ CacheGot
     => /\ resp.key \notin DOMAIN resp.before
           => resp.result = <<>> /\ cache = resp.before
        /\ (resp.key \in DOMAIN resp.before /\ EntryAge < 300)
           => /\ resp.result
                   = << [ resp.before[resp.key].result
                            EXCEPT !.cache_hit = TRUE ] >>
              /\ resp.key \in DOMAIN cache
              /\ cache[resp.key].timestamp
                   = resp.before[resp.key].timestamp
        /\ (resp.key \in DOMAIN resp.before /\ EntryAge >= 300)
           => /\ resp.result = <<>>
              /\ resp.key \notin DOMAIN cache
        /\ \A k \in DOMAIN resp.before \ {resp.key} :
             k \in DOMAIN cache /\ cache[k] = resp.before[k]
  /\ CacheWasSet
     => /\ cache[resp.key] = [ result |-> resp.result[1],
                               timestamp |-> resp.at ]
        /\ resp.at - cache[resp.key].timestamp = 0
        /\ \A k \in DOMAIN resp.before \ {resp.key} :
             k \in DOMAIN cache /\ cache[k] = resp.before[k]

\* an entry read at exactly the age of the time to live
C26_Witness ==
  /\ CacheGot
  /\ resp.key \in DOMAIN resp.before
  /\ EntryAge = 300
  /\ resp.result = <<>>
  /\ resp.key \notin DOMAIN cache

\* create_key() was called twice on the same text
TwoKeys == resp.returned = "key" /\ resp.prev # <<>>

\* t is s with its entries, all distinct, in another order
PermutedDistinct(s, t) ==
  /\ Len(s) = Len(t) /\ s # t
  /\ \A i, j \in DOMAIN s : i # j => s[i] # s[j]
  /\ { s[i] : i \in DOMAIN s } = { t[i] : i \in DOMAIN t }

\* C27: create_key depends only on the text and the last 3 context entries
\* in their order: two calls on the same text whose contexts have the same
\* last 3 entries give the same key, and two whose last 3 entries are
\* distinct entries in a different order give different keys.
C27_KeyOrderSensitive ==
  TwoKeys
  => LET a == resp.prev[1]
         b == resp.call
     IN /\ LastN(a.context, 3) = LastN(b.context, 3) => a.key = b.key
        /\ PermutedDistinct(LastN(a.context, 3), LastN(b.context, 3))
           => a.key # b.key

\* a call between the return of asyncio.wait and its own return
Finishing(r) == reqs[r].pc \in {"fused", "stored", "logged", "recorded"}

\* what the call in slot r has done so far, read off the shared state
HasStored(r) ==
  LET key == create_key(reqs[r].request.text, reqs[r].request.context)
  IN key \in DOMAIN cache
     /\ cache[key] = [ result |-> reqs[r].final_result, timestamp |-> now ]

HasLogged(r) == events # reqs[r].events

HasRecorded(r) ==
  CrisisRecord(WithUser(states, reqs[r].request.user_id)
                 [reqs[r].request.user_id])
    # CrisisRecord(reqs[r].user_state)

\* C28: in a request that runs tiers the fused result is stored in the
\* cache before the breaker is updated, and the audit event is emitted
\* only after the breaker update (record_crisis when the severity is
\* moderate or above); the resources are resolved after both, on the way
\* to the return.
C28_StepOrder ==
  \A r \in Reqs :
    Finishing(r)
    => /\ HasRecorded(r) => HasStored(r)
       /\ (reqs[r].final_result.severity >= MODERATE /\ HasLogged(r))
          => HasRecorded(r)

\* C29: the metrics in a decision are a snapshot: no later step changes a
\* value (a total or a count of the per-severity histogram) that the caller
\* reads in the metrics object of the decision it was given.
C29_MetricsAreSnapshot ==
  [][ (IsCall /\ Decided /\ Path # "bypass")
      => ReadMetrics(resp.response.metrics, metrics')
           = ReadMetrics(resp.response.metrics, metrics) ]_vars

\* this step returned a decision of a request that ran its analysis
AnalysedStep ==
  /\ resp' # resp
  /\ resp'.returned = "response"
  /\ resp'.trace.path \notin {"bypass", "cache_hit"}

\* this step is the return of a request that recorded a crisis of its own
RecordedOwnCrisis ==
  /\ AnalysedStep
  /\ severity_map(resp'.response.detection.severity) >= MODERATE

\* C30: the breaker label in a decision that was not bypassed is the
\* user's state after the request's own crisis recording: the label is the
\* state the breaker holds for the user when the call returns, and the call
\* whose recorded crisis brings the count to the threshold returns open.
C30_LabelAfterOwnRecording ==
  [][ (resp' # resp /\ resp'.returned = "response"
         /\ resp'.trace.path # "bypass")
      => LET u == resp'.request.user_id
             label == resp'.response.user_state.circuit_state
         IN /\ label = states'[u].state
            /\ (RecordedOwnCrisis
                  /\ states'[u].crisis_count >= circuit_breaker.threshold)
               => label = OPEN ]_vars

\* a request that ran its analysis, recorded the crisis that brought the
\* user's count to the threshold, and returned the label open
C30_Witness ==
  /\ IsCall /\ Decided /\ Path \notin {"bypass", "cache_hit"}
  /\ DecidedSeverity >= MODERATE
  /\ resp.request.user_id \in DOMAIN states
  /\ states[resp.request.user_id].crisis_count = circuit_breaker.threshold
  /\ states[resp.request.user_id].last_crisis_time = <<resp.at>>
  /\ resp.response.user_state.circuit_state = OPEN

\* the last return was from MLDetector.detect()
ClassifierReturned == resp.returned = "ml"

\* the position of a stage among the stages the call invoked (0: never)
StagePosition(stage) ==
  IF \E i \in DOMAIN resp.stages : resp.stages[i] = stage
  THEN CHOOSE i \in DOMAIN resp.stages : resp.stages[i] = stage
  ELSE 0

\* C31: in the adaptive classifier the contextual stage is invoked only
\* after the triage stage completed with a classification other than safe;
\* when triage says safe, detect returns severity none (method
\* ml_tier1_safe) and the contextual stage is never invoked.
C31_ContextualStageOnlyAfterTriage ==
  ClassifierReturned
  => /\ StagePosition("tier2") # 0
        => /\ 0 < StagePosition("tier1")
           /\ StagePosition("tier1") < StagePosition("tier2")
           /\ resp.reply.tier1 \notin {"SAFE", "timeout", "error"}
     /\ resp.reply.tier1 = "SAFE"
        => /\ StagePosition("tier2") = 0
           /\ ~resp.raised
           /\ resp.result[1].severity = NONE
           /\ resp.result[1].detection_method = "ml_tier1_safe"

\* triage said safe while the contextual stage would have said critical
C31_Witness ==
  /\ ClassifierReturned
  /\ resp.reply.tier1 = "SAFE"
  /\ resp.reply.tier2 = "ok"
  /\ resp.reply.severity = "critical"
  /\ resp.stages = <<"tier1">>
  /\ resp.result[1].severity = NONE

\* the decision flags resources required, or the request was bypassed
NeedsResources ==
  /\ IsCall /\ Decided
  /\ \/ Path = "bypass"
     \/ Path # "bypass" /\ resp.response.has_resources

\* C32: whenever a decision flags resources required (severity high or
\* above) or the request is bypassed, the resource list attached to the
\* response is non-empty, for every country code (in the directory or not)
\* and every requested or defaulted language.
C32_ResourcesNeverEmpty ==
  NeedsResources => resp.response.resources # <<>>

\* recent[i] is a request of another user that ran its analysis on the text
\* and last 3 context entries of req, less than the time to live before t
CachedByAnother(i, req, t) ==
  /\ recent[i].user_id # req.user_id
  /\ recent[i].text = req.text
  /\ LastN(recent[i].context, 3) = LastN(req.context, 3)
  /\ recent[i].decided
  /\ recent[i].path \in {"tiers", "regex_only"}
  /\ t - recent[i].at < ttl_seconds

\* C33: cache keys ignore the user id: a decision cached by user A's
\* request is returned as a cache hit to a user B who is not bypassed and
\* sends the same text and last 3 context entries within the time to
\* live, and the hit leaves B's breaker record unchanged (no crisis is
\* counted for B even when the shared decision is moderate or above).
C33_CacheSharedAcrossUsers ==
  [][ (resp' # resp /\ resp'.returned = "response"
         /\ resp'.trace.path # "bypass")
      => \A i \in DOMAIN recent :
           CachedByAnother(i, resp'.request, resp'.at)
           => LET u == resp'.request.user_id
              IN /\ resp'.trace.path = "cache_hit"
                 /\ resp'.response.detection.cache_hit
                 /\ severity_map(resp'.response.detection.severity)
                      = recent[i].severity
                 /\ resp'.response.detection.confidence
                      = recent[i].confidence
                 /\ CrisisRecord(states'[u])
                      = CrisisRecord(WithUser(states, u)[u]) ]_vars

\* user B was served user A's decision of severity moderate or above from
\* the cache, and no crisis is on B's record
C33_Witness ==
  /\ IsCall /\ Decided /\ Path = "cache_hit"
  /\ DecidedSeverity >= MODERATE
  /\ Len(recent) >= 2
  /\ CachedByAnother(Len(recent) - 1, resp.request, resp.at)
  /\ states[resp.request.user_id].crisis_count = 0
  /\ \E a \in DOMAIN states : states[a].crisis_count > 0

\* C34: after any sequence of record_crisis, get_state and reset calls on
\* the circuit breaker, with time advancing between them, every user whose
\* state is open has a crisis count at or above the threshold.
C34_OpenImpliesThreshold ==
  \A u \in DOMAIN states :
    states[u].state = OPEN
    => states[u].crisis_count >= circuit_breaker.threshold

\* this step is a call op of the breaker for user u
BreakerCall(op, u) ==
  /\ resp' # resp
  /\ resp'.returned = "breaker"
  /\ resp'.op = op
  /\ resp'.user_id = u

\* C35: once a user's breaker has left closed, no record_crisis or
\* get_state call and no passage of time returns it to closed: open
\* changes only to half-open, by a get_state read after the recovery
\* period; half-open changes only back to open, by a record_crisis whose
\* count reaches the threshold; only reset yields closed.
C35_ClosedOnlyByReset ==
  [][ \A u \in DOMAIN states :
        LET old == states[u].state
            new == states'[u].state
        IN /\ (old # CLOSED /\ new = CLOSED) => BreakerCall("reset", u)
           /\ (old = OPEN /\ new \notin {OPEN, CLOSED})
              => /\ new = HALF_OPEN
                 /\ BreakerCall("get_state", u)
                 /\ now - states[u].last_crisis_time[1]
                      > circuit_breaker.recovery
           /\ (old = HALF_OPEN /\ new \notin {HALF_OPEN, CLOSED})
              => /\ new = OPEN
                 /\ BreakerCall("record_crisis", u)
                 /\ states'[u].crisis_count >= circuit_breaker.threshold
    ]_vars

\* a record_crisis call has just taken a half-open user back to open
C35_Witness ==
  /\ resp.returned = "breaker"
  /\ resp.op = "record_crisis"
  /\ resp.before.state = HALF_OPEN
  /\ resp.result.state = OPEN
  /\ states[resp.user_id].state = OPEN

\* C36: under every interleaving of concurrent detect calls for one user,
\* record_crisis is never applied to the user while the user's breaker is
\* open: a request that passed the bypass check before the breaker opened
\* records no further crisis (and does not move the last-crisis time) once
\* the breaker has opened.
C36_NoRecordingWhileOpen ==
  [][ \A u \in DOMAIN states :
        states[u].state = OPEN
        => CrisisRecord(states'[u]) = CrisisRecord(states[u]) ]_vars

\* more than the recovery period and more than the 30-minute bypass window
\* have passed since the last crisis recorded for u
BypassLapsed(u) ==
  /\ u \in DOMAIN states
  /\ states[u].last_crisis_time # <<>>
  /\ now - states[u].last_crisis_time[1] > circuit_breaker.recovery
  /\ now - states[u].last_crisis_time[1] > window_minutes * 60

\* this step is detect() called for u, up to its first suspension
DetectCalled(u) ==
  \/ /\ resp' # resp
     /\ resp'.returned = "response"
     /\ resp'.trace.path # "tiers"
     /\ resp'.request.user_id = u
  \/ \E r \in Reqs : /\ reqs[r].pc = "idle"
                     /\ reqs'[r].pc = "waiting"
                     /\ reqs'[r].request.user_id = u

\* this step started the tiers for u: the call is suspended in the wait, or
\* returned the pattern matcher's decision
TiersStarted(u) ==
  \/ \E r \in Reqs : /\ reqs[r].pc = "idle"
                     /\ reqs'[r].pc = "waiting"
                     /\ reqs'[r].request.user_id = u
  \/ /\ resp' # resp
     /\ resp'.trace.path = "regex_only"
     /\ resp'.request.user_id = u

\* C37: bypass is not permanent: a bypassed detect call does not change
\* the user's last-crisis time, so for a user with no further recorded
\* crisis, once the time since the last crisis exceeds both the recovery
\* period and the 30-minute bypass window, should_bypass_analysis is false
\* and the next detect call runs the cache lookup and the tiers again.
C37_BypassLapses ==
  /\ [](\A u \in scope.users : BypassLapsed(u) => ~SaysBypass(u))
  /\ [][ \A u \in scope.users :
           /\ (resp' # resp /\ resp'.returned = "response"
                 /\ resp'.trace.path = "bypass"
                 /\ resp'.request.user_id = u)
              => CrisisRecord(states'[u])
                   = CrisisRecord(WithUser(states, u)[u])
           /\ (BypassLapsed(u) /\ DetectCalled(u))
              => \/ TiersStarted(u)
                 \/ /\ resp' # resp
                    /\ resp'.trace.path = "cache_hit" ]_vars

\* a user who was bypassed has been analysed again by the tiers, after the
\* bypass window had passed since the crisis that opened the breaker
C37_Witness ==
  /\ IsCall /\ Decided /\ Path \in {"tiers", "regex_only"}
  /\ Len(recent) >= 2
  /\ recent[Len(recent) - 1].path = "bypass"
  /\ recent[Len(recent) - 1].user_id = resp.request.user_id
  /\ resp.at - recent[Len(recent) - 1].at > window_minutes * 60

\* the last call ran the tiers and returned the fallback decision
FallbackDecided ==
  /\ IsCall /\ Decided /\ Path = "tiers"
  /\ Detection.method = "fallback"

\* the fallback decision is in the cache under the request's key and on the
\* user's record, as of the call's return
FallbackCachedAndRecorded ==
  LET key == create_key(resp.request.text, resp.request.context)
      u == resp.request.user_id
  IN /\ key \in DOMAIN cache
     /\ cache[key] = [ result |-> _create_fallback_result,
                       timestamp |-> resp.at ]
     /\ u \in DOMAIN states
     /\ states[u].last_crisis_time = <<resp.at>>
     /\ states[u].severity_history # <<>>
     /\ states[u].severity_history[Len(states[u].severity_history)]
          = MODERATE

\* this step returns a decision for the request of the last call again,
\* less than the time to live after it
IdenticalRequestReturns ==
  /\ resp' # resp
  /\ resp'.returned = "response"
  /\ resp'.request = resp.request
  /\ resp'.at - resp.at < ttl_seconds

\* the fallback came back from the cache
FallbackFromCache ==
  /\ resp'.trace.path = "cache_hit"
  /\ resp'.response.detection.cache_hit
  /\ resp'.response.detection.method = "fallback"
  /\ resp'.response.detection.severity = "moderate"

\* C38 as stated: a fallback decision is stored in the cache under the
\* request's key and recorded as a crisis for the user, so an identical
\* request within the time to live returns the fallback as a cache hit
\* without running the tiers.
C38_FallbackCachedAndRecorded ==
  [][ /\ (resp' # resp /\ FallbackDecided') => FallbackCachedAndRecorded'
      /\ (FallbackDecided /\ IdenticalRequestReturns)
         => FallbackFromCache ]_vars

\* C38: a fallback decision is stored in the cache under the request's key
\* and recorded as a crisis for the user, so an identical request within
\* the time to live, unless it is bypassed because the breaker has opened,
\* returns the fallback as a cache hit without running the tiers.
C38_FallbackCachedUnlessBypassed ==
  [][ /\ (resp' # resp /\ FallbackDecided') => FallbackCachedAndRecorded'
      /\ (FallbackDecided /\ IdenticalRequestReturns
            /\ resp'.trace.path # "bypass")
         => FallbackFromCache ]_vars

\* the fallback of the call before was served from the cache
C38_Witness ==
  /\ IsCall /\ Decided /\ Path = "cache_hit"
  /\ Detection.method = "fallback"
  /\ Len(recent) >= 2
  /\ recent[Len(recent) - 1].path = "tiers"
  /\ recent[Len(recent) - 1].text = resp.request.text
  /\ recent[Len(recent) - 1].user_id = resp.request.user_id
  /\ states[resp.request.user_id].crisis_count >= 1

\* the caller passed no language, the pattern matcher delivered its result,
\* and the decision (the matcher's own or the fused one) requires resources
ResolvesWithoutLanguage ==
  /\ IsCall /\ Decided /\ Path \in {"tiers", "regex_only"}
  /\ resp.request.language = None
  /\ resp.trace.regex_result # <<>>
  /\ resp.response.has_resources

\* C39: when the caller passes no language, the resources and message of a
\* decision that requires resources are resolved with the language the
\* pattern matcher detected for the message, both when the decision comes
\* from the pattern matcher alone and when it comes from fusion.
C39_DetectedLanguageResolves ==
  ResolvesWithoutLanguage
  => LET detected == resp.trace.regex_result[1].language
     IN /\ resp.response.message_language = detected
        /\ resp.response.resources
             = ResourceNames(get_resources(resp.request.country_code,
                               detected, DecidedSeverity))

\* C40: after any sequence of logged detections, total_detections equals
\* the sum of the per-severity counts, crisis_detections equals the sum of
\* the moderate, high and critical counts, cache_hits is at most
\* total_detections, and the number of retained audit events never exceeds
\* the buffer size.
C40_MetricsConsistent ==
  LET h == metrics.detections_by_severity
  IN /\ metrics.total_detections
          = h["none"] + h["low"] + h["moderate"] + h["high"] + h["critical"]
     /\ metrics.crisis_detections
          = h["moderate"] + h["high"] + h["critical"]
     /\ metrics.cache_hits <= metrics.total_detections
     /\ events <= EventBuffer

\* more detections have been logged than the buffer holds, with a crisis,
\* a benign detection and a cache hit among them
C40_Witness ==
  /\ resp.returned = "logged"
  /\ metrics.total_detections > EventBuffer
  /\ events = EventBuffer
  /\ metrics.crisis_detections >= 1
  /\ metrics.detections_by_severity["none"] >= 1
  /\ metrics.cache_hits >= 1

====
